---- MODULE Spec2Model ----
(***************************************************************************)
(* Family Calendar: the server's users / invitations / events tables and   *)
(* its session-guarded routes (server.js, database.js, auth-middleware),   *)
(* and the client's occurrence engine (script-server.js).                  *)
(***************************************************************************)
EXTENDS Integers, Sequences, FiniteSets, TLC

(***************************************************************************)
(* Values                                                                  *)
(***************************************************************************)
\* SQL NULL / JS null
Null == "null"
\* JS undefined (a property that is not there)
Undefined == "undefined"
\* null in an integer column (recurrence_interval)
NullInt == -99
\* null in a DATE column / a missing date string
NullDate == [y |-> 0, m |-> 0, d |-> 0]

\* bounds of the server model
MaxUsers == 2
MaxFamilies == 2
MaxEvents == 2
MaxInvites == 1
MaxSessions == 1
MaxNow == 8

UserIdPool == <<"u1", "u2", "u3", "u4", "u5">>
FamilyIdPool == <<"f1", "f2", "f3", "f4">>
EventIdPool == <<"ev1", "ev2", "ev3", "ev4">>
InviteIdPool == <<"i1", "i2", "i3", "i4">>

UserIds == {UserIdPool[i] : i \in 1..MaxUsers}
FamilyIds == {FamilyIdPool[i] : i \in 1..MaxFamilies}
EventIds == {EventIdPool[i] : i \in 1..MaxEvents}
InviteIds == {InviteIdPool[i] : i \in 1..MaxInvites}
SessionIds == 1..MaxSessions

Emails == {"a@x", "b@x"}
Passwords == {"pw1", "pw2"}
Roles == {"admin", "adult", "child"}
Visibilities == {"shared", "private"}

\* invitations expire 7 days after creation or resend (unit: day)
InviteTTL == 7
\* the clock advances in steps of this many days
ClockStep == 4

VARIABLES
    users,        \* rows of table users
    invitations,  \* rows of table invitations
    events,       \* rows of table events
    sessions,     \* session store: SessionIds -> session data
    now,          \* server clock, in days
    nextUser,     \* number of user ids handed out
    nextFamily,   \* number of family ids handed out
    nextEvent,    \* number of event ids handed out
    nextInvite,   \* number of invitation ids handed out
    resp,         \* the last logged request and its response
    logged,       \* the routes whose requests are logged in resp
    inflight,     \* the requests the server is in the middle of: slot -> request
    cEvents,      \* client: this.events
    cViewer,      \* client: the viewer context of the open page
    cDate,        \* client: the day asked for
    cResult       \* client: the last computed result

serverVars == <<users, invitations, events, sessions, now,
                nextUser, nextFamily, nextEvent, nextInvite, resp, logged,
                inflight>>
clientVars == <<cEvents, cViewer, cDate, cResult>>
vars == <<users, invitations, events, sessions, now,
          nextUser, nextFamily, nextEvent, nextInvite, resp, logged,
          inflight, cEvents, cViewer, cDate, cResult>>

NoSession == [userId |-> Undefined, userRole |-> Undefined, familyId |-> Undefined]

\* no Date (null)
NoDate == [year |-> 0, month |-> 0, date |-> 0]

\* nothing rendered yet
NoResult == [op |-> "none", index |-> 0, occurs |-> FALSE, next |-> NoDate, list |-> <<>>]

NoResp == [op |-> "none", sess |-> 0, id |-> Null, status |-> 0, list |-> {}]

\* the server handles at most this many requests at a time
MaxRequests == 2
RequestSlots == 1..MaxRequests

\* a slot without a request
NoRequest == [op |-> "none", pc |-> 0, sess |-> 0, id |-> Null]

\* every request has been answered
NothingInFlight == inflight = [r \in RequestSlots |-> NoRequest]


(***************************************************************************)
(* database.js: tables are sets of rows                                    *)
(***************************************************************************)
\* the value the pg driver stores for a query parameter: undefined -> NULL
ToSql(v) == IF v = Undefined THEN Null ELSE v

\* SQL "=" in a WHERE clause: a comparison with NULL never matches
SqlEq(a, b) == a # Null /\ b # Null /\ a = b

\* JS truthiness of a string-valued property
Truthy(v) == v \notin {Undefined, Null, ""}

getUserByEmail(email) == {u \in users : SqlEq(u.email, ToSql(email))}

getUserById(id) == {u \in users : SqlEq(u.id, ToSql(id))}

getInvitationById(id) == {i \in invitations : SqlEq(i.id, ToSql(id))}

getEventById(id) == {e \in events : SqlEq(e.id, ToSql(id))}

verifyPassword(email, password) ==
    {u \in getUserByEmail(email) : u.password = password}

\* a store that hands every event of the family to every member
getEventsByFamilyAnyMember(familyId, userId) ==
    {e \in events :
        \/ SqlEq(e.family_id, ToSql(familyId))
        \/ SqlEq(e.owner_id, ToSql(userId)) /\ e.visibility = "private"}

\* SELECT ... WHERE (family_id = $1 AND visibility = 'shared')
\*               OR (owner_id = $3 AND visibility = 'private')
getEventsByFamily(familyId, userId) ==
    {e \in events :
        \/ SqlEq(e.family_id, ToSql(familyId)) /\ e.visibility = "shared"
        \/ SqlEq(e.owner_id, ToSql(userId)) /\ e.visibility = "private"}

\* DELETE FROM users WHERE id = $1, with the ON DELETE CASCADE references
\* events.owner_id and invitations.invited_by
deleteUserCascade(id) ==
    /\ users' = {u \in users : u.id # id}
    /\ events' = {e \in events : e.owner_id # id}
    /\ invitations' = {i \in invitations : i.invited_by # id}

(***************************************************************************)
(* auth-middleware                                                         *)
(***************************************************************************)
\* requireAuth passes
requireAuth(s) == sessions[s].userId # Undefined

\* requireRole(role): 0 when it passes, else the status it answers with
requireRole(s, role) ==
    IF sessions[s].userId = Undefined THEN 401
    ELSE IF sessions[s].userRole # role THEN 403
    ELSE 0

\* the response: resp keeps it when the route is logged
RespondWith(op, s, id, status, list) ==
    /\ resp' = IF op \in logged
               THEN [op |-> op, sess |-> s, id |-> id, status |-> status, list |-> list]
               ELSE NoResp
    /\ UNCHANGED logged

Respond(op, s, id, status) == RespondWith(op, s, id, status, {})


(***************************************************************************)
(* Event request bodies and the event writes of database.js                *)
(***************************************************************************)
\* A JSON body: "present" holds the names of the properties it has; a
\* property outside "present" is undefined whatever the record holds for it.
EmptyBody ==
    [present |-> {}, title |-> "", date |-> NullDate, time |-> "",
     description |-> "", color |-> "", emoji |-> "", visibility |-> "",
     ownerId |-> "", familyId |-> "", recurrenceType |-> Null,
     recurrenceInterval |-> NullInt, recurrenceUntil |-> NullDate]

Has(b, f) == f \in b.present

\* b.f || dflt for a string property
StrOr(b, f, dflt) == IF Has(b, f) /\ Truthy(b[f]) THEN b[f] ELSE dflt

\* b.recurrenceInterval || dflt (0 and null are falsy)
IntOr(b, dflt) ==
    IF Has(b, "recurrenceInterval") /\ b.recurrenceInterval \notin {NullInt, 0}
    THEN b.recurrenceInterval ELSE dflt

\* b.f || null for a date property
DateOr(b, f) == IF Has(b, f) THEN b[f] ELSE NullDate

\* createEvent: the row INSERTed for eventData under the new id
createEventRow(id, eventData) ==
    LET recurrenceType == StrOr(eventData, "recurrenceType", Null)
    IN [id |-> id,
        title |-> StrOr(eventData, "title", Null),
        date |-> DateOr(eventData, "date"),
        time |-> StrOr(eventData, "time", ""),
        description |-> StrOr(eventData, "description", ""),
        color |-> StrOr(eventData, "color", "blue"),
        emoji |-> StrOr(eventData, "emoji", ""),
        owner_id |-> IF Has(eventData, "ownerId") THEN ToSql(eventData.ownerId) ELSE Null,
        family_id |-> IF Has(eventData, "familyId") THEN ToSql(eventData.familyId) ELSE Null,
        visibility |-> StrOr(eventData, "visibility", "shared"),
        recurrenceType |-> recurrenceType,
        recurrenceInterval |-> IF recurrenceType # Null THEN IntOr(eventData, 1) ELSE NullInt,
        recurrenceUntil |-> DateOr(eventData, "recurrenceUntil")]

\* the INSERT is refused by NOT NULL (title, date), the CHECK on visibility
\* or the foreign key events.owner_id -> users.id
createEventFails(row) ==
    \/ row.title = Null
    \/ row.date = NullDate
    \/ row.visibility \notin {"shared", "private"}
    \/ row.owner_id # Null /\ getUserById(row.owner_id) = {}

\* one "if (updates.f !== undefined) UPDATE events SET f = ..." of updateEvent
SetIfDefined(e, updates, f) ==
    IF Has(updates, f) THEN [e EXCEPT ![f] = updates[f]] ELSE e

updateRecurrenceType(e, updates) ==
    IF Has(updates, "recurrenceType")
    THEN LET recurrenceType == StrOr(updates, "recurrenceType", Null)
             e1 == [e EXCEPT !.recurrenceType = recurrenceType]
         IN IF recurrenceType = Null
            THEN [e1 EXCEPT !.recurrenceInterval = NullInt, !.recurrenceUntil = NullDate]
            ELSE e1
    ELSE e

updateRecurrenceInterval(e, updates) ==
    IF Has(updates, "recurrenceInterval")
    THEN [e EXCEPT !.recurrenceInterval = IntOr(updates, NullInt)]
    ELSE e

updateRecurrenceUntil(e, updates) ==
    IF Has(updates, "recurrenceUntil")
    THEN [e EXCEPT !.recurrenceUntil = DateOr(updates, "recurrenceUntil")]
    ELSE e

\* an updateEvent that also has UPDATE statements for owner_id and family_id
updateEventRowWithOwner(e, updates) ==
    LET o1 == IF Has(updates, "ownerId") THEN [e EXCEPT !.owner_id = updates.ownerId] ELSE e
        o2 == IF Has(updates, "familyId") THEN [o1 EXCEPT !.family_id = updates.familyId] ELSE o1
        e1 == SetIfDefined(o2, updates, "title")
        e2 == SetIfDefined(e1, updates, "date")
        e3 == SetIfDefined(e2, updates, "time")
        e4 == SetIfDefined(e3, updates, "description")
        e5 == SetIfDefined(e4, updates, "color")
        e6 == SetIfDefined(e5, updates, "emoji")
        e7 == SetIfDefined(e6, updates, "visibility")
        e8 == updateRecurrenceType(e7, updates)
        e9 == updateRecurrenceInterval(e8, updates)
    IN updateRecurrenceUntil(e9, updates)

\* updateEvent: the row after all its UPDATE statements, in their order
updateEventRow(e, updates) ==
    LET e1 == SetIfDefined(e, updates, "title")
        e2 == SetIfDefined(e1, updates, "date")
        e3 == SetIfDefined(e2, updates, "time")
        e4 == SetIfDefined(e3, updates, "description")
        e5 == SetIfDefined(e4, updates, "color")
        e6 == SetIfDefined(e5, updates, "emoji")
        e7 == SetIfDefined(e6, updates, "visibility")
        e8 == updateRecurrenceType(e7, updates)
        e9 == updateRecurrenceInterval(e8, updates)
    IN updateRecurrenceUntil(e9, updates)


(***************************************************************************)
(* server.js: authentication routes                                        *)
(***************************************************************************)
SetSession(s, userId, userRole, familyId) ==
    sessions' = [sessions EXCEPT ![s] =
        [userId |-> userId, userRole |-> userRole, familyId |-> familyId]]

\* POST /api/auth/register
Register(s, email, password) ==
    IF getUserByEmail(email) # {}
    THEN /\ Respond("register", s, Null, 400)
         /\ UNCHANGED <<users, invitations, events, sessions, now,
                        nextUser, nextFamily, nextEvent, nextInvite>>
    ELSE /\ nextFamily < MaxFamilies
         /\ nextUser < MaxUsers
         /\ LET family == FamilyIdPool[nextFamily + 1]
                id == UserIdPool[nextUser + 1]
            IN /\ users' = users \cup
                      {[id |-> id, email |-> email, password |-> password,
                        role |-> "admin", family_id |-> family]}
               \* createUser returns the row of SELECT *: it has family_id
               \* and no familyId, so user.familyId is undefined
               /\ SetSession(s, id, "admin", Undefined)
               /\ Respond("register", s, id, 201)
         /\ nextFamily' = nextFamily + 1
         /\ nextUser' = nextUser + 1
         /\ UNCHANGED <<invitations, events, now, nextEvent, nextInvite>>

\* POST /api/auth/login
Login(s, email, password) ==
    LET found == verifyPassword(email, password)
    IN IF found = {}
       THEN /\ Respond("login", s, Null, 401)
            /\ UNCHANGED <<users, invitations, events, sessions, now,
                           nextUser, nextFamily, nextEvent, nextInvite>>
       ELSE LET user == CHOOSE u \in found : TRUE
            IN /\ SetSession(s, user.id, user.role, user.family_id)
               /\ Respond("login", s, user.id, 200)
               /\ UNCHANGED <<users, invitations, events, now,
                              nextUser, nextFamily, nextEvent, nextInvite>>

\* POST /api/auth/logout
Logout(s) ==
    /\ sessions[s] # NoSession
    /\ sessions' = [sessions EXCEPT ![s] = NoSession]
    /\ Respond("logout", s, Null, 200)
    /\ UNCHANGED <<users, invitations, events, now,
                   nextUser, nextFamily, nextEvent, nextInvite>>

(***************************************************************************)
(* server.js: invitations                                                  *)
(***************************************************************************)
\* createInvitation throws: a pending invitation of this email and family
\* exists, or the foreign key invited_by -> users.id fails
createInvitationFails(email, familyId, invitedBy) ==
    \/ \E i \in invitations :
          /\ SqlEq(i.email, ToSql(email))
          /\ SqlEq(i.family_id, ToSql(familyId))
          /\ i.status = "pending"
    \/ getUserById(invitedBy) = {}

\* POST /api/family/invite
Invite(s, email, role) ==
    LET denied == requireRole(s, "admin")
        existingUser == getUserByEmail(email)
    IN IF denied # 0
       THEN /\ Respond("invite", s, Null, denied)
            /\ UNCHANGED <<users, invitations, events, sessions, now,
                           nextUser, nextFamily, nextEvent, nextInvite>>
       \* existingUser.family_id === familyId || existingUser.familyId === familyId,
       \* where the row has no familyId property
       ELSE IF \E u \in existingUser : \/ u.family_id = sessions[s].familyId
                                       \/ Undefined = sessions[s].familyId
       THEN /\ Respond("invite", s, Null, 400)
            /\ UNCHANGED <<users, invitations, events, sessions, now,
                           nextUser, nextFamily, nextEvent, nextInvite>>
       ELSE IF createInvitationFails(email, sessions[s].familyId, sessions[s].userId)
       THEN /\ Respond("invite", s, Null, 500)
            /\ UNCHANGED <<users, invitations, events, sessions, now,
                           nextUser, nextFamily, nextEvent, nextInvite>>
       ELSE /\ nextInvite < MaxInvites
            /\ LET id == InviteIdPool[nextInvite + 1]
               IN /\ invitations' = invitations \cup
                        {[id |-> id, email |-> email,
                          family_id |-> ToSql(sessions[s].familyId),
                          invited_by |-> sessions[s].userId,
                          role |-> IF Truthy(role) THEN role ELSE "adult",
                          status |-> "pending",
                          expires_at |-> now + InviteTTL]}
                  /\ Respond("invite", s, id, 201)
            /\ nextInvite' = nextInvite + 1
            /\ UNCHANGED <<users, events, sessions, now,
                           nextUser, nextFamily, nextEvent>>

\* the statuses the CHECK constraint of invitations.status admits
InvitationStatuses == {"pending", "accepted", "declined"}

\* DELETE /api/family/invitations/:id
CancelInvitation(s, id) ==
    LET denied == requireRole(s, "admin")
        found == getInvitationById(id)
    IN /\ UNCHANGED <<users, events, sessions, now,
                      nextUser, nextFamily, nextEvent, nextInvite>>
       /\ IF denied # 0
          THEN Respond("cancel", s, id, denied) /\ UNCHANGED invitations
          ELSE IF \A i \in found : i.family_id # sessions[s].familyId
          THEN Respond("cancel", s, id, 404) /\ UNCHANGED invitations
          ELSE IF \E i \in found : i.status = "accepted"
          THEN Respond("cancel", s, id, 400) /\ UNCHANGED invitations
          \* cancelInvitation: UPDATE ... SET status = 'cancelled'
          ELSE IF "cancelled" \notin InvitationStatuses
          THEN Respond("cancel", s, id, 500) /\ UNCHANGED invitations
          ELSE /\ invitations' =
                     {IF i.id = id THEN [i EXCEPT !.status = "cancelled"] ELSE i
                        : i \in invitations}
               /\ Respond("cancel", s, id, 200)

\* POST /api/family/invitations/:id/resend
ResendInvitation(s, id) ==
    LET denied == requireRole(s, "admin")
        found == getInvitationById(id)
    IN /\ UNCHANGED <<users, events, sessions, now,
                      nextUser, nextFamily, nextEvent, nextInvite>>
       /\ IF denied # 0
          THEN Respond("resend", s, id, denied) /\ UNCHANGED invitations
          ELSE IF \A i \in found : i.family_id # sessions[s].familyId
          THEN Respond("resend", s, id, 404) /\ UNCHANGED invitations
          ELSE IF \E i \in found : i.status = "accepted"
          THEN Respond("resend", s, id, 400) /\ UNCHANGED invitations
          \* resendInvitation: the foreign key invited_by -> users.id
          ELSE IF getUserById(sessions[s].userId) = {}
          THEN Respond("resend", s, id, 500) /\ UNCHANGED invitations
          ELSE /\ invitations' =
                     {IF i.id = id
                      THEN [i EXCEPT !.status = "pending",
                                     !.invited_by = sessions[s].userId,
                                     !.expires_at = now + InviteTTL]
                      ELSE i : i \in invitations}
               /\ Respond("resend", s, id, 200)

\* an accept route that never looks at expires_at
invitationNeverExpires(invitation) == FALSE

\* "expiresAt && new Date(expiresAt) < new Date()"
invitationExpired(invitation) == invitation.expires_at < now

\* POST /api/invitations/:id/accept (no authentication)
AcceptInvitation(s, id, password) ==
    LET found == getInvitationById(id)
    IN IF ~Truthy(password)
       THEN /\ Respond("accept", s, id, 400)
            /\ UNCHANGED <<users, invitations, events, sessions, now,
                           nextUser, nextFamily, nextEvent, nextInvite>>
       ELSE IF found = {}
       THEN /\ Respond("accept", s, id, 404)
            /\ UNCHANGED <<users, invitations, events, sessions, now,
                           nextUser, nextFamily, nextEvent, nextInvite>>
       ELSE LET invitation == CHOOSE i \in found : TRUE
                existing == getUserByEmail(invitation.email)
            IN IF \/ invitation.status # "pending"
                  \/ invitationExpired(invitation)
                  \/ ~Truthy(invitation.family_id)
               THEN /\ Respond("accept", s, id, 400)
                    /\ UNCHANGED <<users, invitations, events, sessions, now,
                                   nextUser, nextFamily, nextEvent, nextInvite>>
               ELSE /\ existing = {} => nextUser < MaxUsers
                    /\ LET userId == IF existing = {} THEN UserIdPool[nextUser + 1]
                                     ELSE (CHOOSE u \in existing : TRUE).id
                           row == [id |-> userId, email |-> invitation.email,
                                   password |-> password, role |-> invitation.role,
                                   family_id |-> invitation.family_id]
                       IN /\ users' = {u \in users : u.id # userId} \cup {row}
                          /\ SetSession(s, userId, invitation.role, invitation.family_id)
                          /\ Respond("accept", s, id, 201)
                    /\ nextUser' = IF existing = {} THEN nextUser + 1 ELSE nextUser
                    /\ invitations' =
                          {IF i.id = id THEN [i EXCEPT !.status = "accepted"] ELSE i
                             : i \in invitations}
                    /\ UNCHANGED <<events, now, nextFamily, nextEvent, nextInvite>>


(***************************************************************************)
(* server.js: family members                                               *)
(***************************************************************************)
\* "!user || user.familyId !== req.session.familyId": the row returned by
\* getUserById has family_id and no familyId, so user.familyId is undefined
memberNotFound(s, found) ==
    \/ found = {}
    \/ Undefined # sessions[s].familyId

\* PUT /api/family/members/:id/role
ChangeRole(s, userId, role) ==
    LET denied == requireRole(s, "admin")
        found == getUserById(userId)
    IN /\ UNCHANGED <<invitations, events, sessions, now,
                      nextUser, nextFamily, nextEvent, nextInvite>>
       /\ IF denied # 0
          THEN Respond("role", s, userId, denied) /\ UNCHANGED users
          ELSE IF role \notin Roles
          THEN Respond("role", s, userId, 400) /\ UNCHANGED users
          ELSE IF memberNotFound(s, found)
          THEN Respond("role", s, userId, 404) /\ UNCHANGED users
          ELSE IF userId = sessions[s].userId
          THEN Respond("role", s, userId, 400) /\ UNCHANGED users
          ELSE /\ users' = {IF u.id = userId THEN [u EXCEPT !.role = role] ELSE u
                              : u \in users}
               /\ Respond("role", s, userId, 200)

\* DELETE /api/family/members/:id
RemoveMember(s, userId) ==
    LET denied == requireRole(s, "admin")
        found == getUserById(userId)
    IN /\ UNCHANGED <<sessions, now, nextUser, nextFamily, nextEvent, nextInvite>>
       /\ IF denied # 0
          THEN Respond("remove", s, userId, denied)
               /\ UNCHANGED <<users, events, invitations>>
          ELSE IF memberNotFound(s, found)
          THEN Respond("remove", s, userId, 404)
               /\ UNCHANGED <<users, events, invitations>>
          ELSE IF userId = sessions[s].userId
          THEN Respond("remove", s, userId, 400)
               /\ UNCHANGED <<users, events, invitations>>
          ELSE /\ deleteUserCascade(userId)
               /\ Respond("remove", s, userId, 200)

(***************************************************************************)
(* server.js: events                                                       *)
(***************************************************************************)
\* GET /api/events
ListEvents(s) ==
    /\ UNCHANGED <<users, invitations, events, sessions, now,
                   nextUser, nextFamily, nextEvent, nextInvite>>
    /\ IF ~requireAuth(s)
       THEN Respond("list", s, Null, 401)
       ELSE RespondWith("list", s, Null, 200,
                        getEventsByFamily(sessions[s].familyId, sessions[s].userId))

\* POST /api/events
CreateEvent(s, body) ==
    /\ UNCHANGED <<users, invitations, sessions, now,
                   nextUser, nextFamily, nextInvite>>
    /\ IF ~requireAuth(s)
       THEN Respond("create", s, Null, 401) /\ UNCHANGED <<events, nextEvent>>
       ELSE /\ nextEvent < MaxEvents
            /\ LET id == EventIdPool[nextEvent + 1]
                   \* { ...req.body, ownerId, familyId, visibility }
                   eventData ==
                       [body EXCEPT
                          !.present = body.present \cup {"ownerId", "familyId", "visibility"},
                          !.ownerId = sessions[s].userId,
                          !.familyId = sessions[s].familyId,
                          !.visibility = StrOr(body, "visibility", "shared")]
                   row == createEventRow(id, eventData)
               IN IF createEventFails(row)
                  THEN Respond("create", s, Null, 500) /\ UNCHANGED <<events, nextEvent>>
                  ELSE /\ events' = events \cup {row}
                       /\ nextEvent' = nextEvent + 1
                       /\ Respond("create", s, id, 201)

\* a gate that lets only the owner through
canMutateOwnerOnly(s, event) == event.owner_id = sessions[s].userId

\* "only owner or admin can edit / delete"
canMutate(s, event) ==
    ~(event.owner_id # sessions[s].userId /\ sessions[s].userRole # "admin")

\* a route that hands every body to updateEvent as it came
stripNothing(s, body) == body

\* "Children cannot change visibility or owner"
stripForChild(s, body) ==
    IF sessions[s].userRole = "child"
    THEN [body EXCEPT !.present = body.present \ {"visibility", "ownerId", "familyId"}]
    ELSE body

\* PUT /api/events/:id
PutEvent(s, id, body) ==
    LET found == getEventById(id)
    IN /\ UNCHANGED <<users, invitations, sessions, now,
                      nextUser, nextFamily, nextEvent, nextInvite>>
       /\ IF ~requireAuth(s)
          THEN Respond("put", s, id, 401) /\ UNCHANGED events
          ELSE IF found = {}
          THEN Respond("put", s, id, 404) /\ UNCHANGED events
          ELSE LET event == CHOOSE e \in found : TRUE
               IN IF ~canMutate(s, event)
                  THEN Respond("put", s, id, 403) /\ UNCHANGED events
                  ELSE /\ events' = (events \ {event}) \cup
                              {updateEventRow(event, stripForChild(s, body))}
                       /\ Respond("put", s, id, 200)

\* DELETE /api/events/:id
DeleteEvent(s, id) ==
    LET found == getEventById(id)
    IN /\ UNCHANGED <<users, invitations, sessions, now,
                      nextUser, nextFamily, nextEvent, nextInvite>>
       /\ IF ~requireAuth(s)
          THEN Respond("delete", s, id, 401) /\ UNCHANGED events
          ELSE IF found = {}
          THEN Respond("delete", s, id, 404) /\ UNCHANGED events
          ELSE LET event == CHOOSE e \in found : TRUE
               IN IF ~canMutate(s, event)
                  THEN Respond("delete", s, id, 403) /\ UNCHANGED events
                  ELSE /\ events' = events \ {event}
                       /\ Respond("delete", s, id, 200)

\* time passes
Tick ==
    /\ now + ClockStep <= MaxNow
    /\ now' = now + ClockStep
    /\ UNCHANGED <<users, invitations, events, sessions,
                   nextUser, nextFamily, nextEvent, nextInvite, resp, logged>>
    /\ UNCHANGED <<clientVars, inflight>>


(***************************************************************************)
(* The server as a state machine                                           *)
(***************************************************************************)
ServerDate == [y |-> 2024, m |-> 3, d |-> 15]

\* request bodies of POST /api/events: the body may carry an ownerId and a
\* familyId of its own
CreateBodies ==
    {[EmptyBody EXCEPT !.present = {"title", "date", "ownerId", "familyId"},
                       !.title = "t1", !.date = ServerDate,
                       !.ownerId = "u2", !.familyId = "f2"],
     [EmptyBody EXCEPT !.present = {"title", "date", "visibility"},
                       !.title = "t1", !.date = ServerDate, !.visibility = "private"]}

\* request bodies of PUT /api/events/:id
PutBodies ==
    {[EmptyBody EXCEPT !.present = {"visibility", "ownerId", "familyId"},
                       !.visibility = "private", !.ownerId = "u2", !.familyId = "f2"],
     [EmptyBody EXCEPT !.present = {"visibility"}, !.visibility = "shared"]}

ClientIdle ==
    /\ cEvents = <<>>
    /\ cViewer = [userId |-> Null, familyId |-> Null]
    /\ cDate = NullDate
    /\ cResult = NoResult

ServerInit ==
    /\ NothingInFlight
    /\ users = {}
    /\ invitations = {}
    /\ events = {}
    /\ sessions = [s \in SessionIds |-> NoSession]
    /\ now = 0
    /\ nextUser = 0
    /\ nextFamily = 0
    /\ nextEvent = 0
    /\ nextInvite = 0
    /\ resp = NoResp

\* the routes of the event API
EventRoutes == {"list", "create", "put", "delete"}

Init ==
    /\ ServerInit
    /\ logged = EventRoutes
    /\ ClientIdle

\* every account of this specification is created with the same password
DoRegister ==
    /\ \E s \in DOMAIN sessions, email \in Emails : Register(s, email, "pw1")
    /\ UNCHANGED <<clientVars, inflight>>

DoLogin ==
    /\ \E s \in DOMAIN sessions, email \in Emails, password \in Passwords :
          Login(s, email, password)
    /\ UNCHANGED <<clientVars, inflight>>

DoLogout ==
    /\ \E s \in DOMAIN sessions : Logout(s)
    /\ UNCHANGED <<clientVars, inflight>>

DoInvite ==
    /\ \E s \in DOMAIN sessions, email \in Emails, role \in Roles \cup {Undefined} :
          Invite(s, email, role)
    /\ UNCHANGED <<clientVars, inflight>>

DoCancelInvitation ==
    /\ \E s \in DOMAIN sessions, id \in InviteIds : CancelInvitation(s, id)
    /\ UNCHANGED <<clientVars, inflight>>

DoResendInvitation ==
    /\ \E s \in DOMAIN sessions, id \in InviteIds : ResendInvitation(s, id)
    /\ UNCHANGED <<clientVars, inflight>>

DoAcceptInvitation ==
    /\ \E s \in DOMAIN sessions, id \in InviteIds : AcceptInvitation(s, id, "pw1")
    /\ UNCHANGED <<clientVars, inflight>>

DoChangeRole ==
    /\ \E s \in DOMAIN sessions, userId \in UserIds, role \in Roles :
          ChangeRole(s, userId, role)
    /\ UNCHANGED <<clientVars, inflight>>

DoRemoveMember ==
    /\ \E s \in DOMAIN sessions, userId \in UserIds : RemoveMember(s, userId)
    /\ UNCHANGED <<clientVars, inflight>>

DoListEvents ==
    /\ \E s \in DOMAIN sessions : ListEvents(s)
    /\ UNCHANGED <<clientVars, inflight>>

DoCreateEvent ==
    /\ \E s \in DOMAIN sessions, body \in CreateBodies : CreateEvent(s, body)
    /\ UNCHANGED <<clientVars, inflight>>

DoPutEvent ==
    /\ \E s \in DOMAIN sessions, id \in EventIds, body \in PutBodies :
          PutEvent(s, id, body)
    /\ UNCHANGED <<clientVars, inflight>>

DoDeleteEvent ==
    /\ \E s \in DOMAIN sessions, id \in EventIds : DeleteEvent(s, id)
    /\ UNCHANGED <<clientVars, inflight>>

Next ==
    \/ DoRegister
    \/ DoLogin
    \/ DoLogout
    \/ DoInvite
    \/ DoCancelInvitation
    \/ DoResendInvitation
    \/ DoAcceptInvitation
    \/ DoChangeRole
    \/ DoRemoveMember
    \/ DoListEvents
    \/ DoCreateEvent
    \/ DoPutEvent
    \/ DoDeleteEvent

Spec == Init /\ [][Next]_vars


(***************************************************************************)
(* Claims about the event API                                              *)
(***************************************************************************)
\* the session that made the logged request
Viewer == sessions[resp.sess]

ListAnswered == resp.op = "list" /\ resp.status = 200

\* C1: the event list returned to a viewer is exactly the stored events that
\* are shared with the viewer's familyId or private and owned by the viewer's
\* userId, whatever the viewer's role.
C1_ListIsVisibleSet ==
    ListAnswered =>
        /\ resp.list \subseteq events
        /\ \A e \in events :
              e \in resp.list <=>
                 \/ e.visibility = "shared" /\ e.family_id = Viewer.familyId
                 \/ e.visibility = "private" /\ e.owner_id = Viewer.userId

\* an admin received a shared event of the family, and a private event of
\* another member of that family was kept back
C1_Witness ==
    /\ ListAnswered
    /\ Viewer.userRole = "admin"
    /\ resp.list # {}
    /\ \E e \in events \ resp.list :
          /\ e.visibility = "private"
          /\ e.family_id = Viewer.familyId

\* the family stored for the user of the session that made the logged request
StoredFamilies(s) == {u.family_id : u \in getUserById(sessions[s].userId)}

\* C2: every event the event list returns to a user (and that carries a family
\* id) has the familyId of the family the user is a member of at that time.
C2_ListOnlyOwnFamily ==
    ListAnswered =>
        \A e \in resp.list :
            e.family_id # Null => e.family_id \in StoredFamilies(resp.sess)

\* C3: an update or delete of an existing event is applied if and only if the
\* actor is the event's owner or an admin; otherwise it is denied and the
\* stored events are unchanged.
C3_MutateIffOwnerOrAdmin ==
    [][resp'.op \in {"put", "delete"} =>
        \A e \in events :
            e.id = resp'.id =>
                LET actor == sessions[resp'.sess]
                IN IF e.owner_id = actor.userId \/ actor.userRole = "admin"
                   THEN /\ resp'.status = 200
                        /\ resp'.op = "delete" => events' = events \ {e}
                        /\ resp'.op = "put" =>
                              \E body \in PutBodies :
                                 events' = (events \ {e}) \cup
                                    {updateEventRow(e, stripForChild(resp'.sess, body))}
                   ELSE /\ resp'.status \in {401, 403}
                        /\ events' = events]_vars

\* a member who is neither the owner nor an admin was denied
C3_Witness ==
    /\ resp.op \in {"put", "delete"}
    /\ resp.status = 403
    /\ \E e \in events :
          /\ e.id = resp.id
          /\ e.owner_id # Viewer.userId
          /\ Viewer.userRole \in {"adult", "child"}

\* C4: no request modifies or deletes an event whose familyId (when it has
\* one) differs from the family of the user who makes the request.
C4_NoWriteAcrossFamilies ==
    [][resp'.op \in {"put", "delete"} =>
        \A e \in events :
            (e \notin events' /\ e.family_id # Null) =>
                e.family_id \in StoredFamilies(resp'.sess)]_vars


(***************************************************************************)
(* script-server.js: dates                                                 *)
(*                                                                         *)
(* A date string "YYYY-MM-DD" is the record [y, m, d] of its three parts,  *)
(* m in 1..12.  A JS Date at local midnight is the record                  *)
(* [year, month, date] of getFullYear(), getMonth() (0..11), getDate().    *)
(***************************************************************************)
IsLeap(y) == (y % 4 = 0 /\ y % 100 # 0) \/ y % 400 = 0

\* days of month m0 (0..11) of year y
DaysInMonth(y, m0) ==
    IF m0 = 1 THEN (IF IsLeap(y) THEN 29 ELSE 28)
    ELSE IF m0 \in {3, 5, 8, 10} THEN 30
    ELSE 31

\* new Date(y, m0, d) for m0 in 0..11 and d in 1..31: a day past the end of
\* the month rolls over into the next month
MkDate(y, m0, d) ==
    IF d <= DaysInMonth(y, m0) THEN [year |-> y, month |-> m0, date |-> d]
    ELSE IF m0 = 11 THEN [year |-> y + 1, month |-> 0, date |-> d - DaysInMonth(y, m0)]
    ELSE [year |-> y, month |-> m0 + 1, date |-> d - DaysInMonth(y, m0)]

\* a < b on Dates (their time values)
DateLt(a, b) ==
    \/ a.year < b.year
    \/ a.year = b.year /\ a.month < b.month
    \/ a.year = b.year /\ a.month = b.month /\ a.date < b.date

toDate(dateString) ==
    IF dateString = NullDate THEN NoDate
    ELSE MkDate(dateString.y, dateString.m - 1, dateString.d)

\* a formatter that forgets that getMonth() counts from 0
formatDateForInputRawMonth(date) ==
    [y |-> date.year, m |-> date.month, d |-> date.date]

formatDateForInput(date) ==
    [y |-> date.year, m |-> date.month + 1, d |-> date.date]

\* candidate.setFullYear(y)
setFullYear(date, y) == MkDate(y, date.month, date.date)

(***************************************************************************)
(* script-server.js: the occurrence model                                  *)
(***************************************************************************)
\* String(x).toLowerCase() on the recurrence types and the titles of the model
toLowerCase(str) ==
    IF str = "Yearly" THEN "yearly"
    ELSE IF str = "Party" THEN "party"
    ELSE IF str = " Party" THEN " party"
    ELSE IF str = "Picnic" THEN "picnic"
    ELSE str

\* normalizeEvent, for an event that carries the camelCase recurrence
\* properties and a time string
normalizeEvent(rawEvent) ==
    LET recurrenceType ==
            IF Truthy(rawEvent.recurrenceType)
            THEN toLowerCase(rawEvent.recurrenceType) ELSE Null
    IN [rawEvent EXCEPT
          !.recurrenceType = recurrenceType,
          !.recurrenceInterval =
              IF recurrenceType # Null
              THEN (IF rawEvent.recurrenceInterval \in {NullInt, 0}
                    THEN 1 ELSE rawEvent.recurrenceInterval)
              ELSE NullInt,
          !.recurrenceUntil = rawEvent.recurrenceUntil]

normalizeEvents(list) == [i \in 1..Len(list) |-> normalizeEvent(list[i])]

isRecurringEvent(event) == event.recurrenceType = "yearly"

\* "if (untilDate && compareDate >= untilDate) return false": an exclusive end
untilExcludesOnOrAfter(event, compareDate) ==
    /\ event.recurrenceUntil # NullDate
    /\ ~DateLt(compareDate, toDate(event.recurrenceUntil))

\* "if (event.recurrenceUntil) { if (untilDate && compareDate > untilDate) ..."
untilExcludes(event, compareDate) ==
    /\ event.recurrenceUntil # NullDate
    /\ DateLt(toDate(event.recurrenceUntil), compareDate)

\* a match on the month alone
recurrenceMatchesMonthOnly(event, baseDate, compareDate) ==
    /\ event.recurrenceType = "yearly"
    /\ baseDate.month = compareDate.month

\* "switch (event.recurrenceType)"
recurrenceMatches(event, baseDate, compareDate) ==
    /\ event.recurrenceType = "yearly"
    /\ baseDate.month = compareDate.month
    /\ baseDate.date = compareDate.date

occursOnDate(event, targetDate) ==
    IF event.date = NullDate THEN FALSE
    ELSE IF event.date = formatDateForInput(targetDate) THEN TRUE
    ELSE IF ~isRecurringEvent(event) THEN FALSE
    ELSE LET baseDate == toDate(event.date)
             compareDate == targetDate
         IN IF baseDate = NoDate \/ DateLt(compareDate, baseDate) THEN FALSE
            ELSE IF untilExcludes(event, compareDate) THEN FALSE
            ELSE recurrenceMatches(event, baseDate, compareDate)

\* { ...event, occurrenceDate, isRecurringInstance }
createOccurrenceInstance(event, targetDate) ==
    LET occurrenceDate == formatDateForInput(targetDate)
    IN [event |-> event,
        occurrenceDate |-> occurrenceDate,
        isRecurringInstance |-> isRecurringEvent(event) /\ occurrenceDate # event.date]

\* Number.MAX_SAFE_INTEGER, here the largest 32-bit integer: above every
\* hours * 60 + minutes
MAX_SAFE_INTEGER == 2147483647

\* a parser that answers 0 where there is no time
parseTimeToMinutesNoTimeFirst(timeString) ==
    IF Len(timeString) < 2 THEN 0
    ELSE timeString[1] * 60 + timeString[2]

\* a time string "HH:MM" is the tuple of the numbers between its colons,
\* '' is the empty tuple
parseTimeToMinutes(timeString) ==
    IF Len(timeString) < 2 THEN MAX_SAFE_INTEGER
    ELSE timeString[1] * 60 + timeString[2]

\* the stepping loop of getNextOccurrenceDate: the candidate it ends with and
\* the value of safety
RECURSIVE stepCandidate(_, _, _, _)
stepCandidate(candidate, startDate, interval, safety) ==
    IF DateLt(candidate, startDate) /\ safety < 500
    THEN stepCandidate(setFullYear(candidate, candidate.year + interval),
                       startDate, interval, safety + 1)
    ELSE [candidate |-> candidate, safety |-> safety]

\* an interval that keeps the size of a negative one (Math.abs)
stepIntervalAbsolute(event) ==
    IF event.recurrenceInterval \in {NullInt, 0} THEN 1
    ELSE IF event.recurrenceInterval < 0 THEN 0 - event.recurrenceInterval
    ELSE event.recurrenceInterval

\* event.recurrenceInterval && Number(event.recurrenceInterval) > 0
\*     ? Number(event.recurrenceInterval) : 1
stepInterval(event) ==
    IF event.recurrenceInterval # NullInt /\ event.recurrenceInterval > 0
    THEN event.recurrenceInterval ELSE 1

getNextOccurrenceDate(event, fromDate) ==
    IF event.date = NullDate THEN NoDate
    ELSE LET startDate == fromDate
             baseDate == toDate(event.date)
         IN IF baseDate = NoDate THEN NoDate
            ELSE IF ~DateLt(baseDate, startDate) THEN baseDate
            ELSE IF ~isRecurringEvent(event) THEN NoDate
            ELSE LET interval == stepInterval(event)
                     end == stepCandidate(baseDate, startDate, interval, 0)
                 IN IF end.safety >= 500 THEN NoDate
                    ELSE IF /\ event.recurrenceUntil # NullDate
                            /\ DateLt(toDate(event.recurrenceUntil), end.candidate)
                    THEN NoDate
                    ELSE IF ~DateLt(end.candidate, startDate) THEN end.candidate
                    ELSE NoDate

\* Array.prototype.sort with the comparator
\* (a, b) => parseTimeToMinutes(a.time) - parseTimeToMinutes(b.time):
\* a stable sort, here by insertion
RECURSIVE insertByTime(_, _)
insertByTime(sorted, x) ==
    IF sorted = <<>> THEN <<x>>
    ELSE LET last == sorted[Len(sorted)]
         IN IF parseTimeToMinutes(last.event.time) - parseTimeToMinutes(x.event.time) > 0
            THEN Append(insertByTime(SubSeq(sorted, 1, Len(sorted) - 1), x), last)
            ELSE Append(sorted, x)

RECURSIVE sortByTime(_)
sortByTime(list) ==
    IF list = <<>> THEN <<>>
    ELSE insertByTime(sortByTime(SubSeq(list, 1, Len(list) - 1)), list[Len(list)])

\* the forEach of getEventsForDay over the first n events
RECURSIVE collectForDay(_, _, _)
collectForDay(list, n, date) ==
    IF n = 0 THEN <<>>
    ELSE LET rest == collectForDay(list, n - 1, date)
             event == list[n]
         IN IF event.date = NullDate THEN rest
            ELSE IF event.date = formatDateForInput(date)
            THEN Append(rest, createOccurrenceInstance(event, date))
            ELSE IF occursOnDate(event, date)
            THEN Append(rest, createOccurrenceInstance(event, date))
            ELSE rest

\* a forEach whose exact-match branch does not return
RECURSIVE collectForDayNoReturn(_, _, _)
collectForDayNoReturn(list, n, date) ==
    IF n = 0 THEN <<>>
    ELSE LET rest == collectForDayNoReturn(list, n - 1, date)
             event == list[n]
             first == IF event.date # NullDate /\ event.date = formatDateForInput(date)
                      THEN Append(rest, createOccurrenceInstance(event, date))
                      ELSE rest
         IN IF event.date # NullDate /\ occursOnDate(event, date)
            THEN Append(first, createOccurrenceInstance(event, date))
            ELSE first

getEventsForDayNoReturn(list, date) ==
    sortByTime(collectForDayNoReturn(list, Len(list), date))

getEventsForDay(list, date) == sortByTime(collectForDay(list, Len(list), date))

\* this.events after a call that sorts the stored list itself
eventsSortedInPlace(list, date) ==
    LET sorted == sortByTime([i \in 1..Len(list) |-> [event |-> list[i]]])
    IN [i \in 1..Len(list) |-> sorted[i].event]

\* this.events after getEventsForDay: forEach only reads, every instance is a
\* new object ({ ...event }) and sort works on the new array eventsForDay
eventsAfterGetEventsForDay(list, date) == list

\* a Date whose day of month runs past the end of the month, by any number
\* of days: the months are carried over one by one
RECURSIVE rollOver(_, _, _)
rollOver(y, m0, d) ==
    IF d <= DaysInMonth(y, m0) THEN [year |-> y, month |-> m0, date |-> d]
    ELSE IF m0 = 11 THEN rollOver(y + 1, 0, d - DaysInMonth(y, m0))
    ELSE rollOver(y, m0 + 1, d - DaysInMonth(y, m0))

\* date.setDate(date.getDate() + n)
addDays(date, n) == rollOver(date.year, date.month, date.date + n)

\* the days of the default horizon
HorizonDays == 60

\* nextOccurrences.reduce((maxDate, date) => date > maxDate ? date : maxDate,
\* furthest) over the next occurrences of the first n events, null ones
\* filtered out
RECURSIVE reduceLatest(_, _, _)
reduceLatest(list, n, startDate) ==
    IF n = 0 THEN startDate
    ELSE LET maxDate == reduceLatest(list, n - 1, startDate)
             date == getNextOccurrenceDate(list[n], startDate)
         IN IF date # NoDate /\ DateLt(maxDate, date) THEN date ELSE maxDate

\* a horizon that is the default one whatever the events are
pickHorizonDefaultOnly(furthest, defaultHorizon) == defaultHorizon

\* if (defaultHorizon > furthest) furthest = defaultHorizon
pickHorizon(furthest, defaultHorizon) ==
    IF DateLt(furthest, defaultHorizon) THEN defaultHorizon ELSE furthest

calculateListHorizon(list, startDate) ==
    pickHorizon(reduceLatest(list, Len(list), startDate),
                addDays(startDate, HorizonDays))

(***************************************************************************)
(* The calendar page: the event list it holds and the days it renders      *)
(***************************************************************************)
MaxYear == 2024
MaxInterval == 2
MaxCompanions == 1

Years == 2019..MaxYear

MonthDays == {<<2, 28>>, <<2, 29>>, <<3, 1>>, <<3, 15>>, <<3, 16>>, <<4, 15>>}

\* the calendar days a cell or a list row is rendered for: valid dates only
DateStrings ==
    {s \in {[y |-> y, m |-> md[1], d |-> md[2]] : y \in Years, md \in MonthDays} :
        s.d <= DaysInMonth(s.y, s.m - 1)}

Anchors == {[y |-> 2020, m |-> 3, d |-> 15],
            [y |-> 2020, m |-> 2, d |-> 29],
            [y |-> 2021, m |-> 4, d |-> 15]}

RecurrenceTypes == {Null, "yearly", "Yearly", "weekly"}

RecurrenceIntervals == {NullInt} \cup ((0 - MaxInterval)..MaxInterval)

RecurrenceUntils == {NullDate,
                     [y |-> 2020, m |-> 3, d |-> 1],
                     [y |-> 2022, m |-> 3, d |-> 15],
                     [y |-> 2024, m |-> 2, d |-> 29]}

\* an event as GET /api/events delivers it to a member of family f1
RawEvents ==
    {[id |-> "c0", date |-> date, time |-> <<10, 0>>,
      recurrenceType |-> type, recurrenceInterval |-> interval,
      recurrenceUntil |-> until,
      owner_id |-> "u2", family_id |-> "f1", visibility |-> "shared"] :
        date \in Anchors, type \in RecurrenceTypes,
        interval \in RecurrenceIntervals, until \in RecurrenceUntils}

\* further events of the list: two of the server and two that the
\* localStorage fallback keeps, which carry no owner, family or visibility
CompanionEvents ==
    {[id |-> "c0", date |-> [y |-> 2020, m |-> 3, d |-> 15], time |-> <<9, 0>>,
      recurrenceType |-> Null, recurrenceInterval |-> NullInt,
      recurrenceUntil |-> NullDate,
      owner_id |-> "u1", family_id |-> "f1", visibility |-> "private"],
     [id |-> "c0", date |-> [y |-> 2021, m |-> 3, d |-> 15], time |-> <<>>,
      recurrenceType |-> "yearly", recurrenceInterval |-> 1,
      recurrenceUntil |-> NullDate,
      owner_id |-> "u2", family_id |-> "f1", visibility |-> "shared"],
     [id |-> "c0", date |-> [y |-> 2020, m |-> 3, d |-> 15], time |-> <<10, 0>>,
      recurrenceType |-> "yearly", recurrenceInterval |-> 1,
      recurrenceUntil |-> NullDate,
      owner_id |-> Null, family_id |-> Null, visibility |-> Null],
     [id |-> "c0", date |-> [y |-> 2020, m |-> 2, d |-> 29], time |-> <<14, 30>>,
      recurrenceType |-> Null, recurrenceInterval |-> NullInt,
      recurrenceUntil |-> NullDate,
      owner_id |-> Null, family_id |-> Null, visibility |-> Null]}

ClientIdPool == <<"c1", "c2", "c3", "c4">>

\* the ids of a list are distinct: here the position in the list
withIds(list) == [i \in 1..Len(list) |-> [list[i] EXCEPT !.id = ClientIdPool[i]]]

CompanionLists == UNION {[1..k -> CompanionEvents] : k \in 0..MaxCompanions}

MaxAgenda == 3

AgendaTimes == {<<>>, <<9, 0>>, <<14, 0>>}

\* events of one family that fall on the same days: a yearly one and a
\* one-off one for every time of day
AgendaEvents ==
    {[id |-> "c0", date |-> [y |-> 2020, m |-> 3, d |-> 15], time |-> time,
      recurrenceType |-> "yearly", recurrenceInterval |-> 1,
      recurrenceUntil |-> NullDate,
      owner_id |-> "u1", family_id |-> "f1", visibility |-> "shared"] :
        time \in AgendaTimes}
    \cup
    {[id |-> "c0", date |-> [y |-> 2021, m |-> 3, d |-> 15], time |-> time,
      recurrenceType |-> Null, recurrenceInterval |-> NullInt,
      recurrenceUntil |-> NullDate,
      owner_id |-> "u1", family_id |-> "f1", visibility |-> "shared"] :
        time \in AgendaTimes}

AgendaLists ==
    {normalizeEvents(withIds(list)) :
        list \in UNION {[1..k -> AgendaEvents] : k \in 2..MaxAgenda}}

\* loadEvents: this.events = this.normalizeEvents(rawEvents)
LoadedLists ==
    {normalizeEvents(withIds(<<raw>> \o companions)) :
        raw \in RawEvents, companions \in CompanionLists}

(***************************************************************************)
(* The calendar page renders: one step per call of the occurrence model.   *)
(* The calls do not depend on one another (none of them writes this.events),*)
(* so a behaviour makes one call on the list it loaded.                     *)
(***************************************************************************)
ClientInit ==
    /\ ServerInit
    /\ logged = {}
    /\ cEvents \in LoadedLists \cup AgendaLists
    /\ cViewer = [userId |-> "u1", familyId |-> "f1"]
    /\ cDate = NullDate
    /\ cResult = NoResult

\* this.occursOnDate(this.events[i], date)
DoOccursOn ==
    /\ cResult.op = "none"
    /\ \E i \in 1..Len(cEvents), D \in DateStrings :
          /\ cDate' = D
          /\ cResult' = [NoResult EXCEPT !.op = "occursOn", !.index = i,
                            !.occurs = occursOnDate(cEvents[i], toDate(D))]
    /\ UNCHANGED <<cEvents, cViewer>>
    /\ UNCHANGED serverVars

\* this.getNextOccurrenceDate(this.events[i], fromDate)
DoNextOccurrence ==
    /\ cResult.op = "none"
    /\ \E i \in 1..Len(cEvents), D \in DateStrings :
          /\ cDate' = D
          /\ cResult' = [NoResult EXCEPT !.op = "next", !.index = i,
                            !.next = getNextOccurrenceDate(cEvents[i], toDate(D))]
    /\ UNCHANGED <<cEvents, cViewer>>
    /\ UNCHANGED serverVars

\* this.getEventsForDay(date)
DoGetEventsForDay ==
    /\ cResult.op = "none"
    /\ \E D \in DateStrings :
          /\ cDate' = D
          /\ cResult' = [NoResult EXCEPT !.op = "day",
                            !.list = getEventsForDay(cEvents, toDate(D))]
          /\ cEvents' = eventsAfterGetEventsForDay(cEvents, toDate(D))
    /\ UNCHANGED cViewer
    /\ UNCHANGED serverVars

\* this.getEventsForDay(date) once more for the same day, as every
\* renderCalendar and renderListView does
DoGetEventsForDayAgain ==
    /\ cResult.op = "day"
    /\ cResult' = [NoResult EXCEPT !.op = "dayAgain",
                      !.list = getEventsForDay(cEvents, toDate(cDate))]
    /\ cEvents' = eventsAfterGetEventsForDay(cEvents, toDate(cDate))
    /\ UNCHANGED <<cViewer, cDate>>
    /\ UNCHANGED serverVars

\* this.calculateListHorizon(startDate)
DoCalculateListHorizon ==
    /\ cResult.op = "none"
    /\ \E D \in DateStrings :
          /\ cDate' = D
          /\ cResult' = [NoResult EXCEPT !.op = "horizon",
                            !.next = calculateListHorizon(cEvents, toDate(D))]
    /\ UNCHANGED <<cEvents, cViewer>>
    /\ UNCHANGED serverVars

NextClient ==
    \/ DoOccursOn
    \/ DoNextOccurrence
    \/ DoGetEventsForDay
    \/ DoGetEventsForDayAgain
    \/ DoCalculateListHorizon

SpecClient == ClientInit /\ [][NextClient]_vars

(***************************************************************************)
(* Claims about the occurrence model                                       *)
(***************************************************************************)
\* the event and the day of the call that was answered
Asked == cEvents[cResult.index]

OccursOnAnswered == cResult.op = "occursOn"

\* calendar order of two days
Later(a, b) ==
    \/ a.y > b.y
    \/ a.y = b.y /\ a.m > b.m
    \/ a.y = b.y /\ a.m = b.m /\ a.d > b.d

SameMonthDay(a, b) == a.m = b.m /\ a.d = b.d

\* C5: a yearly event without recurrenceUntil occurs on day D exactly when D
\* is the anchor date, or D is later than the anchor and has the anchor's
\* month and day; it does not occur before the anchor nor on a day whose
\* month or day differs from the anchor's.
C5_YearlyOccursOn ==
    (OccursOnAnswered /\ Asked.recurrenceType = "yearly"
                      /\ Asked.recurrenceUntil = NullDate) =>
        /\ cResult.occurs <=>
              \/ cDate = Asked.date
              \/ Later(cDate, Asked.date) /\ SameMonthDay(cDate, Asked.date)
        /\ Later(Asked.date, cDate) => ~cResult.occurs
        /\ ~SameMonthDay(cDate, Asked.date) => ~cResult.occurs

C5_Witness ==
    /\ OccursOnAnswered /\ Asked.recurrenceType = "yearly"
    /\ Asked.recurrenceUntil = NullDate
    /\ Later(cDate, Asked.date) /\ cResult.occurs

\* C6: a one-off event (recurrenceType null or a value other than yearly)
\* occurs on its own date and on no other day.
C6_OneOffOccursOnItsDate ==
    (OccursOnAnswered /\ Asked.recurrenceType # "yearly") =>
        (cResult.occurs <=> cDate = Asked.date)

C6_Witness ==
    /\ OccursOnAnswered /\ Asked.recurrenceType = "weekly"
    /\ cDate = Asked.date /\ cResult.occurs

\* the occurrence of a yearly event that falls exactly on its recurrenceUntil
OnUntil ==
    /\ cDate = Asked.recurrenceUntil
    /\ ~Later(Asked.date, cDate)
    /\ SameMonthDay(cDate, Asked.date)

\* C7, as stated: for a yearly event with recurrenceUntil U the event occurs
\* on no day later than U, whatever the anchor date, and the occurrence that
\* falls exactly on U is included.
C7_UntilWhateverAnchor ==
    (OccursOnAnswered /\ Asked.recurrenceType = "yearly"
                      /\ Asked.recurrenceUntil # NullDate) =>
        /\ Later(cDate, Asked.recurrenceUntil) => ~cResult.occurs
        /\ OnUntil => cResult.occurs

\* C7, amended: for a yearly event with recurrenceUntil U the event occurs on
\* no day later than U other than its anchor date itself, and the occurrence
\* that falls exactly on U is included.
C7_UntilInclusive ==
    (OccursOnAnswered /\ Asked.recurrenceType = "yearly"
                      /\ Asked.recurrenceUntil # NullDate) =>
        /\ (Later(cDate, Asked.recurrenceUntil) /\ cDate # Asked.date)
              => ~cResult.occurs
        /\ OnUntil => cResult.occurs

C7_Witness ==
    /\ OccursOnAnswered /\ Asked.recurrenceType = "yearly"
    /\ OnUntil /\ cDate # Asked.date /\ cResult.occurs

\* C8: a yearly event with recurrenceInterval N occurs on day D only if the
\* years of D and of the anchor differ by a multiple of N, and the day test
\* and the next-occurrence computation agree: a day the event occurs on is its
\* next occurrence on or after that day (stated for anchors other than
\* 29 February, which setFullYear moves to 1 March).
C8_IntervalMultipliesStep ==
    (OccursOnAnswered /\ Asked.recurrenceType = "yearly" /\ cResult.occurs
                      /\ Asked.recurrenceInterval >= 1) =>
        /\ (cDate.y - Asked.date.y) % Asked.recurrenceInterval = 0
        /\ ~(Asked.date.m = 2 /\ Asked.date.d = 29) =>
              getNextOccurrenceDate(Asked, toDate(cDate)) = toDate(cDate)

\* isVisible of the visibility filter
IsVisible(event, viewer) ==
    \/ event.visibility = "shared" /\ event.family_id = viewer.familyId
    \/ event.visibility = "private" /\ event.owner_id = viewer.userId

DayAnswered == cResult.op = "day"

\* C9: the day result holds no occurrence of an event that is not visible to
\* the viewer, whatever list the page holds.
C9_DayResultVisibleOnly ==
    DayAnswered =>
        \A k \in 1..Len(cResult.list) : IsVisible(cResult.list[k].event, cViewer)

\* the instances of the day result that belong to the event at position i
InstancesOf(i) ==
    {k \in 1..Len(cResult.list) : cResult.list[k].event.id = cEvents[i].id}

\* C10: the day result for D holds exactly one instance of every event that
\* occurs on D and none of any other event; every instance carries
\* occurrenceDate D and is flagged isRecurringInstance exactly when its event
\* is recurring and D is not the event's anchor date.
C10_OneInstancePerOccurrence ==
    DayAnswered =>
        /\ \A i \in 1..Len(cEvents) :
              Cardinality(InstancesOf(i)) =
                  IF occursOnDate(cEvents[i], toDate(cDate)) THEN 1 ELSE 0
        /\ \A k \in 1..Len(cResult.list) :
              LET instance == cResult.list[k]
              IN /\ \E i \in 1..Len(cEvents) : instance.event = cEvents[i]
                 /\ instance.occurrenceDate = cDate
                 /\ instance.isRecurringInstance <=>
                       /\ instance.event.recurrenceType = "yearly"
                       /\ cDate # instance.event.date

C10_Witness ==
    /\ DayAnswered /\ Len(cResult.list) = 2 /\ Len(cEvents) = 2
    /\ \E k \in 1..2 : cResult.list[k].isRecurringInstance
    /\ \E k \in 1..2 : ~cResult.list[k].isRecurringInstance

\* the place of an instance's event in this.events
PositionOf(instance) ==
    CHOOSE i \in 1..Len(cEvents) : cEvents[i].id = instance.event.id

HasTime(instance) == instance.event.time # <<>>

MinutesOf(instance) == instance.event.time[1] * 60 + instance.event.time[2]

\* C11: the day result is in ascending order of time of day, every event
\* without a time comes after every event with a time, and events with the
\* same time (or both without one) are in the order of the input list.
C11_DayResultOrdered ==
    DayAnswered =>
        \A k, l \in 1..Len(cResult.list) : k < l =>
            LET a == cResult.list[k]
                b == cResult.list[l]
            IN /\ HasTime(b) => HasTime(a) /\ MinutesOf(a) <= MinutesOf(b)
               /\ (HasTime(a) /\ HasTime(b) /\ MinutesOf(a) = MinutesOf(b))
                     => PositionOf(a) < PositionOf(b)
               /\ (~HasTime(a) /\ ~HasTime(b)) => PositionOf(a) < PositionOf(b)

C11_Witness ==
    /\ DayAnswered /\ Len(cResult.list) = 3
    /\ ~HasTime(cResult.list[3]) /\ PositionOf(cResult.list[3]) = 1
    /\ HasTime(cResult.list[1]) /\ HasTime(cResult.list[2])
    /\ MinutesOf(cResult.list[1]) = MinutesOf(cResult.list[2])

\* a call of the read side was answered in this step
ReadAnswered == cResult'.op \in {"occursOn", "next", "day", "dayAgain", "horizon"}

NextAnswered == cResult.op = "next"

\* the anchor moved on by n years, as a Date
PlusYears(dateString, n) == MkDate(dateString.y + n, dateString.m - 1, dateString.d)

\* the least k >= 1 for which the anchor plus k * N years is on or after the
\* day asked for
FirstStep(event, N) ==
    CHOOSE k \in 1..(MaxYear - 2018) :
        /\ ~DateLt(PlusYears(event.date, k * N), toDate(cDate))
        /\ \A j \in 1..(k - 1) : DateLt(PlusYears(event.date, j * N), toDate(cDate))

\* the next occurrence on or after cDate as the contract describes it
NextExpected(event) ==
    IF ~Later(cDate, event.date) THEN toDate(event.date)
    ELSE IF event.recurrenceType # "yearly" THEN NoDate
    ELSE LET candidate ==
                 PlusYears(event.date, FirstStep(event, event.recurrenceInterval)
                                          * event.recurrenceInterval)
         IN IF /\ event.recurrenceUntil # NullDate
               /\ DateLt(toDate(event.recurrenceUntil), candidate)
            THEN NoDate
            ELSE candidate

\* C13: the next occurrence on or after fromDate is the anchor when the
\* anchor is not before fromDate; otherwise null for an event that is not
\* recurring; otherwise the first anchor + k * recurrenceInterval years
\* (k >= 1) on or after fromDate, or null when that date is later than
\* recurrenceUntil; a result is never before fromDate.  (Stated for the
\* positive intervals of the data model.)
C13_NextOccurrence ==
    (NextAnswered /\ (Asked.recurrenceType = "yearly" => Asked.recurrenceInterval >= 1)) =>
        /\ cResult.next = NextExpected(Asked)
        /\ cResult.next # NoDate => ~DateLt(cResult.next, toDate(cDate))

HorizonAnswered == cResult.op = "horizon"

\* the number of a day, counted from 1 January of the year 0
DayNumber(date) ==
    LET RECURSIVE daysBefore(_)
        daysBefore(m0) ==
            IF m0 = 0 THEN 0 ELSE daysBefore(m0 - 1) + DaysInMonth(date.year, m0 - 1)
        y == date.year - 1
    IN 365 * date.year + (y \div 4) - (y \div 100) + (y \div 400)
       + daysBefore(date.month) + date.date

\* the next occurrences, on or after cDate, of the events that have one
NextOccurrences ==
    {getNextOccurrenceDate(cEvents[i], toDate(cDate)) : i \in 1..Len(cEvents)}
        \ {NoDate}

\* C14: the horizon of the list view is the later of startDate + 60 days
\* and the latest next occurrence of an event: it is never before
\* startDate + 60 days, never before the next occurrence of any event, and
\* it is startDate + 60 days when no event has a next occurrence.
C14_Horizon ==
    HorizonAnswered =>
        LET horizon == cResult.next
            default == DayNumber(toDate(cDate)) + 60
        IN /\ DayNumber(horizon) >= default
           /\ \A next \in NextOccurrences : ~DateLt(horizon, next)
           /\ DayNumber(horizon) = default \/ horizon \in NextOccurrences
           /\ NextOccurrences = {} => DayNumber(horizon) = default

C14_Witness ==
    /\ HorizonAnswered /\ Len(cEvents) = 2
    /\ cResult.next \in NextOccurrences
    /\ DayNumber(cResult.next) > DayNumber(toDate(cDate)) + 60
    /\ Cardinality(NextOccurrences) = 2

\* a yearly event with a zero or negative interval, asked for its next
\* occurrence on or after a day later than its anchor
NonPositiveAsked ==
    /\ NextAnswered /\ Asked.recurrenceType = "yearly"
    /\ Asked.recurrenceInterval # NullInt /\ Asked.recurrenceInterval <= 0
    /\ Later(cDate, Asked.date)

UntilDate == [y |-> 2025, m |-> 1, d |-> 1]

\* request bodies of POST /api/events with every shape of the recurrence
\* properties; the first carries an ownerId and a familyId of its own
AnyCreateBodies ==
    {[EmptyBody EXCEPT !.present = {"title", "date", "ownerId", "familyId", "recurrenceType"},
                       !.title = "t1", !.date = ServerDate,
                       !.ownerId = "u1", !.familyId = "f2",
                       !.recurrenceType = "yearly"],
     [EmptyBody EXCEPT !.present = {"title", "date", "recurrenceType",
                                    "recurrenceInterval", "recurrenceUntil"},
                       !.title = "t1", !.date = ServerDate,
                       !.recurrenceType = "yearly", !.recurrenceInterval = 2,
                       !.recurrenceUntil = UntilDate],
     [EmptyBody EXCEPT !.present = {"title", "date", "visibility",
                                    "recurrenceInterval", "recurrenceUntil"},
                       !.title = "t1", !.date = ServerDate, !.visibility = "private",
                       !.recurrenceInterval = 2, !.recurrenceUntil = UntilDate],
     [EmptyBody EXCEPT !.present = {"title", "date", "recurrenceType", "recurrenceInterval"},
                       !.title = "t1", !.date = ServerDate,
                       !.recurrenceType = "yearly", !.recurrenceInterval = -1]}

\* request bodies of PUT /api/events/:id
AnyPutBodies ==
    {[EmptyBody EXCEPT !.present = {"title", "visibility", "ownerId", "familyId"},
                       !.title = "t2", !.visibility = "private",
                       !.ownerId = "u1", !.familyId = "f2"],
     [EmptyBody EXCEPT !.present = {"title", "visibility"},
                       !.title = "t2", !.visibility = "shared"],
     [EmptyBody EXCEPT !.present = {"recurrenceType"}, !.recurrenceType = Null],
     [EmptyBody EXCEPT !.present = {"recurrenceType"}, !.recurrenceType = "yearly"],
     [EmptyBody EXCEPT !.present = {"recurrenceType", "recurrenceInterval", "recurrenceUntil"},
                       !.recurrenceType = Null, !.recurrenceInterval = 2,
                       !.recurrenceUntil = UntilDate],
     [EmptyBody EXCEPT !.present = {"recurrenceInterval"}, !.recurrenceInterval = 2]}

\* the routes of the event writes
WriteRoutes == {"create", "put"}

\* a family after register (a@x), invite (b@x) and accept: an admin and an
\* adult or a child, nobody logged in
FamilyInit ==
    /\ NothingInFlight
    /\ \E role \in {"adult", "child"} :
          /\ users = {[id |-> "u1", email |-> "a@x", password |-> "pw1",
                       role |-> "admin", family_id |-> "f1"],
                      [id |-> "u2", email |-> "b@x", password |-> "pw1",
                       role |-> role, family_id |-> "f1"]}
          /\ invitations = {[id |-> "i1", email |-> "b@x", family_id |-> "f1",
                             invited_by |-> "u1", role |-> role,
                             status |-> "accepted", expires_at |-> InviteTTL]}
    /\ events = {}
    /\ sessions = [s \in SessionIds |-> NoSession]
    /\ now = 0
    /\ nextUser = 2
    /\ nextFamily = 1
    /\ nextEvent = 0
    /\ nextInvite = 1
    /\ resp = NoResp
    /\ logged = WriteRoutes
    /\ ClientIdle

DoCreateAnyEvent ==
    /\ \E s \in DOMAIN sessions, body \in AnyCreateBodies : CreateEvent(s, body)
    /\ UNCHANGED <<clientVars, inflight>>

DoPutAnyEvent ==
    /\ \E s \in DOMAIN sessions, id \in EventIds, body \in AnyPutBodies :
          PutEvent(s, id, body)
    /\ UNCHANGED <<clientVars, inflight>>

NextWrites ==
    \/ DoLogin
    \/ DoCreateAnyEvent
    \/ DoPutAnyEvent

SpecWrites == FamilyInit /\ [][NextWrites]_vars

(***************************************************************************)
(* Claims about the event writes                                           *)
(***************************************************************************)
\* the columns a PUT sets from the property of the same name alone
PlainFields == {"title", "date", "time", "description", "color", "emoji", "visibility"}

ProtectedFields == {"visibility", "ownerId", "familyId"}

\* a PUT was answered with the updated event in this step
PutDone == resp'.op = "put" /\ resp'.status = 200

\* C16: an update by a child leaves visibility, owner and family of the
\* event as they were, whatever the body carries for them, and the other
\* properties of the body are applied.
C16_ChildKeepsVisibilityOwnerFamily ==
    [][(PutDone /\ sessions[resp'.sess].userRole = "child") =>
        \A e \in events : e.id = resp'.id =>
            \E e2 \in events', body \in AnyPutBodies :
                /\ e2.id = e.id
                /\ e2.visibility = e.visibility
                /\ e2.owner_id = e.owner_id
                /\ e2.family_id = e.family_id
                /\ \A f \in PlainFields \ ProtectedFields :
                      e2[f] = IF Has(body, f) THEN body[f] ELSE e[f]
                /\ Has(body, "recurrenceType") => e2.recurrenceType = body.recurrenceType
                /\ Has(body, "recurrenceInterval") =>
                      e2.recurrenceInterval = body.recurrenceInterval
                /\ Has(body, "recurrenceUntil") => e2.recurrenceUntil = body.recurrenceUntil
      ]_vars

C16_Witness ==
    /\ resp.op = "put" /\ resp.status = 200
    /\ sessions[resp.sess].userRole = "child"
    /\ \E e \in events :
          /\ e.id = resp.id /\ e.owner_id = sessions[resp.sess].userId
          /\ e.title = "t2" /\ e.visibility = "shared"

\* a POST was answered with the new event in this step
CreateDone == resp'.op = "create" /\ resp'.status = 201

\* C17: no update changes the id, the owner or the family of an event, and
\* a new event gets owner and family from the session of the request, also
\* when the body carries an ownerId and a familyId of its own.
C17_IdentityFixed ==
    [][/\ resp'.op = "put" =>
            \A e \in events : \E e2 \in events' :
                /\ e2.id = e.id
                /\ e2.owner_id = e.owner_id
                /\ e2.family_id = e.family_id
       /\ resp'.op = "put" => Cardinality(events') = Cardinality(events)
       /\ CreateDone =>
            \E e2 \in events' \ events :
                /\ e2.id = resp'.id
                /\ e2.owner_id = sessions[resp'.sess].userId
                /\ e2.family_id = ToSql(sessions[resp'.sess].familyId)
      ]_vars

C17_Witness ==
    /\ resp.op = "put" /\ resp.status = 200
    /\ sessions[resp.sess].userRole = "admin"
    /\ \E e \in events :
          /\ e.id = resp.id /\ e.owner_id = "u2" /\ e.family_id = "f1"
          /\ e.title = "t2" /\ e.visibility = "private"
          /\ e.recurrenceType = "yearly" /\ e.recurrenceInterval = 1

\* C18: after every createEvent and every updateEvent, a stored event
\* without a recurrenceType has neither a recurrenceInterval nor a
\* recurrenceUntil, and a stored event with a recurrenceType has a
\* recurrenceInterval of at least 1.
C18_RecurrenceNormalized ==
    \A e \in events :
        /\ e.recurrenceType = Null =>
              e.recurrenceInterval = NullInt /\ e.recurrenceUntil = NullDate
        /\ e.recurrenceType # Null =>
              e.recurrenceInterval # NullInt /\ e.recurrenceInterval >= 1


(***************************************************************************)
(* The family: invitations, members and the clock                          *)
(***************************************************************************)
\* the routes that change who is a member of a family
FamilyRoutes == {"accept", "role", "remove"}

FamilyAdminInit ==
    /\ ServerInit
    /\ logged = FamilyRoutes
    /\ ClientIdle

\* the body of an accept may lack the password
DoAcceptAnyInvitation ==
    /\ \E s \in DOMAIN sessions, id \in InviteIds, password \in {"pw1", Undefined} :
          AcceptInvitation(s, id, password)
    /\ UNCHANGED <<clientVars, inflight>>

NextFamily ==
    \/ DoRegister
    \/ DoLogin
    \/ DoInvite
    \/ DoCancelInvitation
    \/ DoResendInvitation
    \/ DoAcceptAnyInvitation
    \/ DoChangeRole
    \/ DoRemoveMember
    \/ Tick

SpecFamily == FamilyAdminInit /\ [][NextFamily]_vars

(***************************************************************************)
(* Claims about the family                                                 *)
(***************************************************************************)
\* a role change or a removal was answered in this step
MemberAnswered == resp'.op \in {"role", "remove"} /\ now' = now

\* the requester is an admin, the target is a member of the family the
\* requester is a member of, and the target is not the requester
MemberChangeAllowed(s, target) ==
    /\ sessions[s].userRole = "admin"
    /\ target # sessions[s].userId
    /\ \E me \in users, u \in users :
          /\ me.id = sessions[s].userId
          /\ u.id = target
          /\ u.family_id = me.family_id

\* C19: a role change or a removal is applied exactly when the requester's
\* session role is admin, the target is a member of the requester's own
\* family and the target is not the requester; otherwise it is rejected
\* and the users table stays as it is.
C19_MemberChangeIffAdminOfFamily ==
    [][MemberAnswered =>
         /\ (resp'.status = 200) <=> MemberChangeAllowed(resp'.sess, resp'.id)
         /\ ~MemberChangeAllowed(resp'.sess, resp'.id) => users' = users
      ]_vars

\* an accept was answered in this step
AcceptAnswered == resp'.op = "accept" /\ now' = now

\* the invitations whose expires_at is written in this step
ExpiryWritten ==
    {i2 \in invitations' :
        \A i \in invitations : i.id = i2.id => i.expires_at # i2.expires_at}

\* C20: an accept succeeds only for an invitation that is pending and whose
\* expires_at, set InviteTTL after its creation or its last resend, is not
\* before the current time; it then makes the invited email a member of
\* the invitation's family with the invitation's role and marks the
\* invitation accepted; an accept that is rejected leaves users and
\* invitations as they are.
C20_AcceptWhilePendingAndFresh ==
    [][/\ AcceptAnswered =>
            IF resp'.status = 201
            THEN \E i \in invitations :
                    /\ i.id = resp'.id
                    /\ i.status = "pending"
                    /\ now <= i.expires_at
                    /\ \E u \in users' :
                          /\ u.email = i.email
                          /\ u.family_id = i.family_id
                          /\ u.role = i.role
                    /\ \A u \in users' : u.email = i.email => u.family_id = i.family_id
                    /\ \E i2 \in invitations' : i2.id = i.id /\ i2.status = "accepted"
            ELSE users' = users /\ invitations' = invitations
       /\ \A i2 \in ExpiryWritten : i2.expires_at = now + InviteTTL
       /\ \A i2 \in invitations' \ invitations :
             i2.id \notin {i.id : i \in invitations} => i2 \in ExpiryWritten
      ]_vars

\* an invitation that ran out was sent again and then accepted
C20_Witness ==
    /\ resp.op = "accept" /\ resp.status = 201
    /\ now > InviteTTL
    /\ \E i \in invitations :
          /\ i.id = resp.id /\ i.status = "accepted"
          /\ i.expires_at = now + InviteTTL
          /\ \E u \in users : u.email = i.email /\ u.family_id = i.family_id


(***************************************************************************)
(* Claims about the next occurrence and the days it is shown on            *)
(***************************************************************************)
\* C23: a date that getNextOccurrenceDate returns is a date on which the
\* event occurs: occursOnDate is true for the event and that date, for
\* every event, anchors on 29 February included, and every fromDate.
C23_NextOccurrenceOccurs ==
    (NextAnswered /\ cResult.next # NoDate) => occursOnDate(Asked, cResult.next)


(***************************************************************************)
(* The family, with the answers of the invitation routes kept              *)
(***************************************************************************)
InvitationRoutes == {"invite", "cancel", "resend", "accept"}

InvitationsInit ==
    /\ ServerInit
    /\ logged = InvitationRoutes
    /\ ClientIdle

SpecInvitations == InvitationsInit /\ [][NextFamily]_vars

\* a cancel was answered in this step
CancelAnswered == resp'.op = "cancel" /\ now' = now

\* the requester is an admin and the invitation is a pending one of the
\* family the requester is a member of
CancelOfOwnPending(s, id) ==
    /\ sessions[s].userRole = "admin"
    /\ \E me \in users, i \in invitations :
          /\ me.id = sessions[s].userId
          /\ i.id = id
          /\ i.status = "pending"
          /\ i.family_id = me.family_id

\* C21: when an admin cancels a pending invitation of their own family the
\* request succeeds and the stored status is no longer pending and is one
\* the status constraint of the table admits, so that a later accept of
\* the invitation is rejected.
C21_CancelEndsPending ==
    [][(CancelAnswered /\ CancelOfOwnPending(resp'.sess, resp'.id)) =>
         /\ resp'.status = 200
         /\ \E i2 \in invitations' :
               /\ i2.id = resp'.id
               /\ i2.status # "pending"
               /\ i2.status \in InvitationStatuses
      ]_vars


(***************************************************************************)
(* server.js, database.js: the import of a calendar file                   *)
(***************************************************************************)
\* bounds of the import model
MaxBatch == 2
MaxImportEvents == 4

ImportIdPool == <<"ev1", "ev2", "ev3", "ev4", "ev5", "ev6", "ev7", "ev8">>

\* String.prototype.trim on the titles and times of the model
trim(str) == IF str = " Party" THEN "Party" ELSE str

\* LOWER(title) of PostgreSQL on the titles of the model
SqlLower(str) ==
    IF str = "Party" THEN "party"
    ELSE IF str = " Party" THEN " party"
    ELSE IF str = "Picnic" THEN "picnic"
    ELSE str

\* [familyId, normalizedTitle.toLowerCase(), date, normalizedTime].join('|')
dedupeKey(eventData) ==
    <<eventData.familyId, toLowerCase(trim(eventData.title)), eventData.date,
      trim(StrOr(eventData, "time", ""))>>

\* SELECT id FROM events WHERE family_id = $1 AND LOWER(title) = $2
\*   AND date = $3 AND COALESCE(time, '') = $4
existingForKey(stored, key) ==
    {e \in stored :
        /\ SqlEq(e.family_id, ToSql(key[1]))
        /\ SqlLower(e.title) = key[2]
        /\ e.date = key[3]
        /\ e.time = key[4]}

\* bulkCreateEvents, from the k-th event of the batch on; st holds the
\* table, the number created and skipped, seenKeys, the next id to give
\* out and whether createEvent threw
RECURSIVE bulkCreateFrom(_, _, _)
bulkCreateFrom(batch, k, st) ==
    IF k > Len(batch) \/ st.failed THEN st
    ELSE LET eventData == batch[k]
             key == dedupeKey(eventData)
             row == createEventRow(ImportIdPool[st.next + 1],
                        [eventData EXCEPT !.title = trim(eventData.title),
                                          !.time = trim(StrOr(eventData, "time", "")),
                                          !.present = eventData.present \cup {"time"}])
         IN IF \/ ~(Has(eventData, "title") /\ Truthy(eventData.title))
               \/ ~(Has(eventData, "date") /\ eventData.date # NullDate)
               \/ ~(Has(eventData, "familyId") /\ Truthy(eventData.familyId))
            THEN bulkCreateFrom(batch, k + 1, [st EXCEPT !.skipped = st.skipped + 1])
            ELSE IF key \in st.seenKeys
            THEN bulkCreateFrom(batch, k + 1, [st EXCEPT !.skipped = st.skipped + 1])
            ELSE IF existingForKey(st.stored, key) # {}
            THEN bulkCreateFrom(batch, k + 1,
                     [st EXCEPT !.skipped = st.skipped + 1,
                                !.seenKeys = st.seenKeys \cup {key}])
            ELSE IF row.title = Null \/ row.date = NullDate
                    \/ (row.owner_id # Null /\ getUserById(row.owner_id) = {})
            THEN [st EXCEPT !.failed = TRUE, !.seenKeys = st.seenKeys \cup {key}]
            ELSE bulkCreateFrom(batch, k + 1,
                     [st EXCEPT !.stored = st.stored \cup {row},
                                !.created = st.created + 1,
                                !.next = st.next + 1,
                                !.seenKeys = st.seenKeys \cup {key}])

bulkCreateEvents(batch) ==
    bulkCreateFrom(batch, 1,
        [stored |-> events, created |-> 0, skipped |-> 0, seenKeys |-> {},
         next |-> nextEvent, failed |-> FALSE])

\* importedEvents.map(event => ({...event, ownerId, familyId, visibility: 'shared'}))
withSession(s, parsed) ==
    [k \in 1..Len(parsed) |->
        [parsed[k] EXCEPT
            !.present = parsed[k].present \cup {"ownerId", "familyId", "visibility"},
            !.ownerId = sessions[s].userId,
            !.familyId = sessions[s].familyId,
            !.visibility = "shared"]]

\* POST /api/import; parsed is what parseICSFile or parseCSVFile made of the
\* file.  The answer keeps the batch beside importedCount and skippedCount.
ImportEvents(s, hasFile, parsed) ==
    /\ UNCHANGED <<users, invitations, sessions, now,
                   nextUser, nextFamily, nextInvite>>
    /\ IF ~requireAuth(s)
       THEN Respond("import", s, Null, 401) /\ UNCHANGED <<events, nextEvent>>
       ELSE IF ~hasFile
       THEN Respond("import", s, Null, 400) /\ UNCHANGED <<events, nextEvent>>
       ELSE LET result == bulkCreateEvents(withSession(s, parsed))
            IN /\ events' = result.stored
               /\ nextEvent' = result.next
               /\ IF result.failed
                  THEN Respond("import", s, Null, 500)
                  ELSE RespondWith("import", s, Null, 200,
                           {[importedCount |-> result.created,
                             skippedCount |-> result.skipped,
                             batch |-> parsed]})

ImportDate == [y |-> 2024, m |-> 3, d |-> 15]

\* the titles of the model: one title in three spellings, and another one
ImportTitles == {"Party", "party", " Party", "Picnic"}

\* an event as the parsers of server.js build it
ParsedEvent(title, time) ==
    [EmptyBody EXCEPT
        !.present = {"title", "date", "time", "description", "color", "emoji"},
        !.title = title, !.date = ImportDate, !.time = time, !.color = "blue"]

ParsedEvents ==
    {ParsedEvent(title, "") : title \in ImportTitles} \cup {ParsedEvent("Party", "10:00")}

Batches ==
    UNION {[1..n -> ParsedEvents] : n \in 1..MaxBatch}

\* request bodies of POST /api/events that carry a title as it was typed
TitledBodies ==
    {[EmptyBody EXCEPT !.present = {"title", "date"},
                       !.title = title, !.date = ImportDate] : title \in ImportTitles}

\* one admin, registered and still on the session of the registration
ImportInit ==
    /\ NothingInFlight
    /\ users = {[id |-> "u1", email |-> "a@x", password |-> "pw1",
                 role |-> "admin", family_id |-> "f1"]}
    /\ invitations = {}
    /\ events = {}
    /\ sessions = [s \in SessionIds |->
                      [userId |-> "u1", userRole |-> "admin", familyId |-> Undefined]]
    /\ now = 0
    /\ nextUser = 1
    /\ nextFamily = 1
    /\ nextEvent = 0
    /\ nextInvite = 0
    /\ resp = NoResp
    /\ logged = {"import"}
    /\ ClientIdle

DoCreateTitledEvent ==
    /\ \E s \in DOMAIN sessions, body \in TitledBodies : CreateEvent(s, body)
    /\ UNCHANGED <<clientVars, inflight>>

DoImport ==
    /\ \E s \in DOMAIN sessions, hasFile \in BOOLEAN, parsed \in Batches :
          /\ nextEvent + Len(parsed) <= MaxImportEvents
          /\ ImportEvents(s, hasFile, parsed)
    /\ UNCHANGED <<clientVars, inflight>>

NextImport ==
    \/ DoLogin
    \/ DoLogout
    \/ DoCreateTitledEvent
    \/ DoImport

SpecImport == ImportInit /\ [][NextImport]_vars

(***************************************************************************)
(* Claims about the import                                                 *)
(***************************************************************************)
\* an import was answered with its counts in this step
ImportDone == resp'.op = "import" /\ resp'.status = 200

\* the key of a stored event: family, trimmed title without case, date, time
StoredKey(e) == <<e.family_id, toLowerCase(trim(e.title)), e.date, trim(e.time)>>

\* C22: an import creates no event whose key (family, trimmed title without
\* case, date, time) is that of an event stored before or of another event
\* it creates; the created and the skipped count add up to the number of
\* events of the file; importing the same batch again creates no event.
C22_ImportSkipsDuplicates ==
    [][ImportDone =>
         LET answer == CHOOSE a \in resp'.list : TRUE
             new == events' \ events
         IN /\ \A c \in new : \A e \in events : StoredKey(e) # StoredKey(c)
            /\ \A c, d \in new : StoredKey(c) = StoredKey(d) => c = d
            /\ answer.importedCount = Cardinality(new)
            /\ answer.importedCount + answer.skippedCount = Len(answer.batch)
            /\ (/\ resp.op = "import" /\ resp.status = 200
                /\ resp.sess = resp'.sess
                /\ (CHOOSE a \in resp.list : TRUE).batch = answer.batch)
               => new = {}
      ]_vars


(***************************************************************************)
(* Claims about the family of a session                                    *)
(***************************************************************************)
\* register, login or accept wrote a user into session s in this step
SessionOpened(s) == sessions'[s] # sessions[s] /\ sessions'[s].userId # Undefined

\* C29: after a registration, a login and an accepted invitation the
\* familyId of the session is the family id stored for the user of the
\* session, and a shared event the user creates on it is stored with the
\* id of that family.
C29_SessionFamilyIsStoredFamily ==
    [][/\ \A s \in DOMAIN sessions :
            SessionOpened(s) =>
               \E u \in users' : /\ u.id = sessions'[s].userId
                                 /\ sessions'[s].familyId = u.family_id
       /\ CreateDone =>
            \A e \in events' \ events :
               e.visibility = "shared" => e.family_id \in StoredFamilies(resp'.sess)
      ]_vars


(***************************************************************************)
(* An open session of a member while an admin changes the family           *)
(***************************************************************************)
MaxOpenSessions == 2

RevocationRoutes == {"role", "remove", "list", "create", "put"}

\* a@x registered on session 1 and is still on it; on session 2 a@x logged
\* in and invited b@x, and b@x then accepted there
RevocationInit ==
    /\ NothingInFlight
    /\ \E role \in {"admin", "adult"} :
          /\ users = {[id |-> "u1", email |-> "a@x", password |-> "pw1",
                       role |-> "admin", family_id |-> "f1"],
                      [id |-> "u2", email |-> "b@x", password |-> "pw1",
                       role |-> role, family_id |-> "f1"]}
          /\ invitations = {[id |-> "i1", email |-> "b@x", family_id |-> "f1",
                             invited_by |-> "u1", role |-> role,
                             status |-> "accepted", expires_at |-> InviteTTL]}
          /\ sessions = [s \in 1..MaxOpenSessions |->
                IF s = 1
                THEN [userId |-> "u1", userRole |-> "admin", familyId |-> Undefined]
                ELSE IF s = 2
                THEN [userId |-> "u2", userRole |-> role, familyId |-> "f1"]
                ELSE NoSession]
    /\ events = {}
    /\ now = 0
    /\ nextUser = 2
    /\ nextFamily = 1
    /\ nextEvent = 0
    /\ nextInvite = 1
    /\ resp = NoResp
    /\ logged = RevocationRoutes
    /\ ClientIdle

NextRevocation ==
    \/ DoChangeRole
    \/ DoRemoveMember
    \/ DoListEvents
    \/ DoCreateEvent
    \/ DoPutEvent

SpecRevocation == RevocationInit /\ [][NextRevocation]_vars

(***************************************************************************)
(* Claims about open sessions                                              *)
(***************************************************************************)
\* the roles stored for the user of session s
StoredRoles(s) == {u.role : u \in getUserById(sessions[s].userId)}

\* C28: a request on an open session is authorized by the role and the
\* membership stored for its user at that time: a role change or a removal
\* is applied only for a stored admin, an event of another user is changed
\* only by a stored admin, and shared events of a family are listed only
\* to a user stored as a member of that family.
C28_StoredRoleDecides ==
    [][/\ (resp'.op \in {"role", "remove"} /\ resp'.status = 200) =>
             "admin" \in StoredRoles(resp'.sess)
       /\ (resp'.op = "put" /\ resp'.status = 200) =>
             \A e \in events :
                (e.id = resp'.id /\ e.owner_id # sessions[resp'.sess].userId) =>
                   "admin" \in StoredRoles(resp'.sess)
       /\ (resp'.op = "list" /\ resp'.status = 200) =>
             \A e \in resp'.list :
                e.visibility = "shared" => e.family_id \in StoredFamilies(resp'.sess)
      ]_vars


(***************************************************************************)
(* An invitation for the email of an account that exists                   *)
(***************************************************************************)
\* getInvitationsByEmail: SELECT * FROM invitations WHERE email = $1 AND status = 'pending'
getInvitationsByEmail(email) ==
    {i \in invitations : i.email = email /\ i.status = "pending"}

\* GET /api/invitations/:email (no authentication)
ListInvitations(s, email) ==
    /\ RespondWith("invitations", s, Null, 200, getInvitationsByEmail(email))
    /\ UNCHANGED <<users, invitations, events, sessions, now,
                   nextUser, nextFamily, nextEvent, nextInvite>>

AccountRoutes == {"login", "logout", "invite", "invitations", "accept"}

\* a@x and b@x have each registered a family of their own, and a@x has
\* logged in
AccountsInit ==
    /\ NothingInFlight
    /\ users = {[id |-> "u1", email |-> "a@x", password |-> "pw1",
                 role |-> "admin", family_id |-> "f1"],
                [id |-> "u2", email |-> "b@x", password |-> "pw1",
                 role |-> "admin", family_id |-> "f2"]}
    /\ invitations = {}
    /\ events = {}
    /\ sessions = [s \in SessionIds |->
                      [userId |-> "u1", userRole |-> "admin", familyId |-> "f1"]]
    /\ now = 0
    /\ nextUser = 2
    /\ nextFamily = 2
    /\ nextEvent = 0
    /\ nextInvite = 0
    /\ resp = NoResp
    /\ logged = AccountRoutes
    /\ ClientIdle

DoListInvitations ==
    /\ \E s \in DOMAIN sessions, email \in Emails : ListInvitations(s, email)
    /\ UNCHANGED <<clientVars, inflight>>

\* the body of an accept carries the password the account is to have
DoAcceptWithPassword ==
    /\ \E s \in DOMAIN sessions, id \in InviteIds,
          password \in Passwords \cup {Undefined} :
          AcceptInvitation(s, id, password)
    /\ UNCHANGED <<clientVars, inflight>>

NextAccounts ==
    \/ DoLogin
    \/ DoLogout
    \/ DoInvite
    \/ DoListInvitations
    \/ DoAcceptWithPassword

SpecAccounts == AccountsInit /\ [][NextAccounts]_vars

(***************************************************************************)
(* Claims about accounts                                                   *)
(***************************************************************************)
\* the request answered in this step came without a logged-in session
Unauthenticated == resp'.op # "none" /\ sessions[resp'.sess].userId = Undefined

\* C30: a session of an account that exists already is opened by a
\* successful login only, and a request that is not authenticated changes
\* the stored password, role and family of no existing account.
C30_AccountsNeedTheirPassword ==
    [][/\ \A s \in DOMAIN sessions :
            (SessionOpened(s) /\ getUserById(sessions'[s].userId) # {}) =>
               resp'.op = "login" /\ resp'.status = 200
       /\ Unauthenticated =>
            \A u \in users : \E u2 \in users' :
               /\ u2.id = u.id
               /\ u2.password = u.password
               /\ u2.role = u.role
               /\ u2.family_id = u.family_id
      ]_vars


(***************************************************************************)
(* PUT /api/events/:id, one query at a time                                *)
(***************************************************************************)
\* the queries of updateEvent in their order; each is awaited on its own,
\* and another request can run between two of them
UpdateStatements ==
    <<"title", "date", "time", "description", "color", "emoji", "visibility",
      "recurrenceType", "recurrenceClear", "recurrenceInterval", "recurrenceUntil">>

\* "if (updates.f !== undefined)", and "if (!recurrenceType)" for the query
\* that clears interval and until
statementRuns(updates, stmt) ==
    IF stmt = "recurrenceClear"
    THEN Has(updates, "recurrenceType") /\ StrOr(updates, "recurrenceType", Null) = Null
    ELSE Has(updates, stmt)

\* the row after one UPDATE of updateEvent
applyStatement(e, updates, stmt) ==
    IF stmt = "recurrenceType"
    THEN [e EXCEPT !.recurrenceType = StrOr(updates, "recurrenceType", Null)]
    ELSE IF stmt = "recurrenceClear"
    THEN [e EXCEPT !.recurrenceInterval = NullInt, !.recurrenceUntil = NullDate]
    ELSE IF stmt = "recurrenceInterval" THEN updateRecurrenceInterval(e, updates)
    ELSE IF stmt = "recurrenceUntil" THEN updateRecurrenceUntil(e, updates)
    ELSE SetIfDefined(e, updates, stmt)

\* the position of the first query at or after pc that runs; one past the
\* last when none does
nextStatement(updates, pc) ==
    LET later == {k \in pc..Len(UpdateStatements) :
                     statementRuns(updates, UpdateStatements[k])}
    IN IF later = {} THEN Len(UpdateStatements) + 1
       ELSE CHOOSE k \in later : \A j \in later : k <= j

\* the route up to "await db.updateEvent(id, updates)"
PutBegin(r, s, id, body) ==
    LET found == getEventById(id)
    IN /\ inflight[r].op = "none"
       /\ UNCHANGED <<users, invitations, events, sessions, now,
                      nextUser, nextFamily, nextEvent, nextInvite>>
       /\ IF ~requireAuth(s)
          THEN Respond("put", s, id, 401) /\ UNCHANGED inflight
          ELSE IF found = {}
          THEN Respond("put", s, id, 404) /\ UNCHANGED inflight
          ELSE IF ~canMutate(s, CHOOSE e \in found : TRUE)
          THEN Respond("put", s, id, 403) /\ UNCHANGED inflight
          ELSE /\ inflight' = [inflight EXCEPT ![r] =
                                  [op |-> "put", pc |-> 0, sess |-> s, id |-> id,
                                   updates |-> stripForChild(s, body)]]
               /\ UNCHANGED <<resp, logged>>

\* updateEvent: "const event = await getEventById(id)"
PutLookup(r) ==
    LET req == inflight[r]
    IN /\ req.op = "put" /\ req.pc = 0
       /\ UNCHANGED <<users, invitations, events, sessions, now,
                      nextUser, nextFamily, nextEvent, nextInvite>>
       /\ IF getEventById(req.id) = {}
          THEN /\ Respond("put", req.sess, req.id, 500)
               /\ inflight' = [inflight EXCEPT ![r] = NoRequest]
          ELSE /\ inflight' = [inflight EXCEPT ![r].pc = nextStatement(req.updates, 1)]
               /\ UNCHANGED <<resp, logged>>

\* updateEvent: one "await query('UPDATE events SET ...')"; when it is the
\* last one, the queries that would follow are skipped in the same step
PutStatement(r) ==
    LET req == inflight[r]
    IN /\ req.op = "put" /\ req.pc \in 1..Len(UpdateStatements)
       /\ events' = {IF e.id = req.id
                     THEN applyStatement(e, req.updates, UpdateStatements[req.pc])
                     ELSE e : e \in events}
       /\ inflight' = [inflight EXCEPT ![r].pc = nextStatement(req.updates, req.pc + 1)]
       /\ UNCHANGED <<users, invitations, sessions, now,
                      nextUser, nextFamily, nextEvent, nextInvite, resp, logged>>

\* updateEvent: "return await getEventById(id)", and the answer; the slot
\* keeps the request as answered
PutEnd(r) ==
    LET req == inflight[r]
    IN /\ req.op = "put" /\ req.pc = Len(UpdateStatements) + 1
       /\ Respond("put", req.sess, req.id, 200)
       /\ inflight' = [inflight EXCEPT ![r].op = "answered"]
       /\ UNCHANGED <<users, invitations, events, sessions, now,
                      nextUser, nextFamily, nextEvent, nextInvite>>

\* the event both requests are about
RaceEvent ==
    createEventRow("ev1",
        [EmptyBody EXCEPT !.present = {"title", "date", "ownerId", "familyId", "visibility"},
                          !.title = "t1", !.date = ServerDate, !.ownerId = "u1",
                          !.familyId = "f1", !.visibility = "shared"])

\* request bodies that change several fields
RaceBodies ==
    {[EmptyBody EXCEPT !.present = {"title", "visibility"},
                       !.title = "t2", !.visibility = "private"],
     [EmptyBody EXCEPT !.present = {"title", "visibility"},
                       !.title = "t3", !.visibility = "shared"],
     [EmptyBody EXCEPT !.present = {"recurrenceType", "recurrenceInterval"},
                       !.recurrenceType = "yearly", !.recurrenceInterval = 2],
     [EmptyBody EXCEPT !.present = {"title", "recurrenceType"},
                       !.title = "t2", !.recurrenceType = Null]}

\* the owner of the event is logged in
RaceInit ==
    /\ NothingInFlight
    /\ users = {[id |-> "u1", email |-> "a@x", password |-> "pw1",
                 role |-> "admin", family_id |-> "f1"]}
    /\ invitations = {}
    /\ events = {RaceEvent}
    /\ sessions = [s \in SessionIds |->
                      [userId |-> "u1", userRole |-> "admin", familyId |-> "f1"]]
    /\ now = 0
    /\ nextUser = 1
    /\ nextFamily = 1
    /\ nextEvent = 1
    /\ nextInvite = 0
    /\ resp = NoResp
    /\ logged = {"put"}
    /\ ClientIdle

DoPutBegin ==
    /\ \E r \in RequestSlots, s \in DOMAIN sessions, id \in EventIds, body \in RaceBodies :
          PutBegin(r, s, id, body)
    /\ UNCHANGED clientVars

DoPutLookup ==
    /\ \E r \in RequestSlots : PutLookup(r)
    /\ UNCHANGED clientVars

DoPutStatement ==
    /\ \E r \in RequestSlots : PutStatement(r)
    /\ UNCHANGED clientVars

DoPutEnd ==
    /\ \E r \in RequestSlots : PutEnd(r)
    /\ UNCHANGED clientVars

NextRacePut ==
    \/ DoPutBegin
    \/ DoPutLookup
    \/ DoPutStatement
    \/ DoPutEnd

SpecRacePut == RaceInit /\ [][NextRacePut]_vars

(***************************************************************************)
(* Claims about concurrent updates                                         *)
(***************************************************************************)
\* two update requests of the event have run and both are answered
BothAnswered(r1, r2) ==
    /\ r1 # r2
    /\ inflight[r1].op = "answered" /\ inflight[r2].op = "answered"
    /\ inflight[r1].id = RaceEvent.id /\ inflight[r2].id = RaceEvent.id
    /\ \A r \in RequestSlots \ {r1, r2} : inflight[r].op = "none"

\* C24: when two update requests of one event have run concurrently, the
\* stored event is what the two updates give when one is applied after the
\* other, in one of the two orders.
C24_UpdatesSerializable ==
    \A r1, r2 \in RequestSlots :
        BothAnswered(r1, r2) =>
            \E e \in events :
                \/ e = updateEventRow(updateEventRow(RaceEvent, inflight[r1].updates),
                                      inflight[r2].updates)
                \/ e = updateEventRow(updateEventRow(RaceEvent, inflight[r2].updates),
                                      inflight[r1].updates)


(***************************************************************************)
(* The invitation routes, one query at a time                              *)
(***************************************************************************)
MaxRaceInvites == 2

\* a request keeps the session data it was received with
Received(op, s, id) ==
    [op |-> op, pc |-> 1, sess |-> s, id |-> id,
     userId |-> sessions[s].userId, familyId |-> sessions[s].familyId]

\* POST /api/family/invite up to "await db.createInvitation(...)"
InviteBegin(r, s, email, role) ==
    LET denied == requireRole(s, "admin")
        existingUser == getUserByEmail(email)
    IN /\ inflight[r].op = "none"
       /\ UNCHANGED <<users, invitations, events, sessions, now,
                      nextUser, nextFamily, nextEvent, nextInvite>>
       /\ IF denied # 0
          THEN Respond("invite", s, Null, denied) /\ UNCHANGED inflight
          ELSE IF \E u \in existingUser : \/ u.family_id = sessions[s].familyId
                                          \/ Undefined = sessions[s].familyId
          THEN Respond("invite", s, Null, 400) /\ UNCHANGED inflight
          ELSE /\ inflight' = [inflight EXCEPT ![r] =
                      [op |-> "invite", pc |-> 1, sess |-> s, id |-> Null,
                       userId |-> sessions[s].userId, familyId |-> sessions[s].familyId,
                       email |-> email,
                       role |-> IF Truthy(role) THEN role ELSE "adult"]]
               /\ UNCHANGED <<resp, logged>>

\* createInvitation: the SELECT that looks for a pending invitation
InviteCheck(r) ==
    LET req == inflight[r]
    IN /\ req.op = "invite" /\ req.pc = 1
       /\ UNCHANGED <<users, invitations, events, sessions, now,
                      nextUser, nextFamily, nextEvent, nextInvite>>
       /\ IF \E i \in invitations :
                /\ SqlEq(i.email, ToSql(req.email))
                /\ SqlEq(i.family_id, ToSql(req.familyId))
                /\ i.status = "pending"
          THEN /\ Respond("invite", req.sess, Null, 500)
               /\ inflight' = [inflight EXCEPT ![r] = NoRequest]
          ELSE /\ inflight' = [inflight EXCEPT ![r].pc = 2]
               /\ UNCHANGED <<resp, logged>>

\* createInvitation: the INSERT, and the answer of the route
InviteInsert(r) ==
    LET req == inflight[r]
    IN /\ req.op = "invite" /\ req.pc = 2
       /\ inflight' = [inflight EXCEPT ![r] = NoRequest]
       /\ UNCHANGED <<users, events, sessions, now, nextUser, nextFamily, nextEvent>>
       /\ IF getUserById(req.userId) = {}
          THEN Respond("invite", req.sess, Null, 500)
               /\ UNCHANGED <<invitations, nextInvite>>
          ELSE /\ nextInvite < MaxRaceInvites
               /\ LET id == InviteIdPool[nextInvite + 1]
                  IN /\ invitations' = invitations \cup
                           {[id |-> id, email |-> req.email,
                             family_id |-> ToSql(req.familyId),
                             invited_by |-> req.userId,
                             role |-> req.role,
                             status |-> "pending",
                             expires_at |-> now + InviteTTL]}
                     /\ Respond("invite", req.sess, id, 201)
               /\ nextInvite' = nextInvite + 1

\* the resend and the cancel route up to their UPDATE
ChangeInvitationBegin(r, op, s, id) ==
    LET denied == requireRole(s, "admin")
        found == getInvitationById(id)
    IN /\ inflight[r].op = "none"
       /\ UNCHANGED <<users, invitations, events, sessions, now,
                      nextUser, nextFamily, nextEvent, nextInvite>>
       /\ IF denied # 0
          THEN Respond(op, s, id, denied) /\ UNCHANGED inflight
          ELSE IF \A i \in found : i.family_id # sessions[s].familyId
          THEN Respond(op, s, id, 404) /\ UNCHANGED inflight
          ELSE IF \E i \in found : i.status = "accepted"
          THEN Respond(op, s, id, 400) /\ UNCHANGED inflight
          ELSE /\ inflight' = [inflight EXCEPT ![r] = Received(op, s, id)]
               /\ UNCHANGED <<resp, logged>>

\* resendInvitation: UPDATE invitations SET status = 'pending', invited_by,
\* expires_at WHERE id = $4 AND family_id = $5
ResendWrite(r) ==
    LET req == inflight[r]
        rows == {i \in invitations : i.id = req.id /\ SqlEq(i.family_id, ToSql(req.familyId))}
    IN /\ req.op = "resend" /\ req.pc = 1
       /\ inflight' = [inflight EXCEPT ![r] = NoRequest]
       /\ UNCHANGED <<users, events, sessions, now,
                      nextUser, nextFamily, nextEvent, nextInvite>>
       /\ IF rows = {}
          THEN Respond("resend", req.sess, req.id, 404) /\ UNCHANGED invitations
          ELSE IF getUserById(req.userId) = {}
          THEN Respond("resend", req.sess, req.id, 500) /\ UNCHANGED invitations
          ELSE /\ invitations' =
                     {IF i \in rows
                      THEN [i EXCEPT !.status = "pending",
                                     !.invited_by = req.userId,
                                     !.expires_at = now + InviteTTL]
                      ELSE i : i \in invitations}
               /\ Respond("resend", req.sess, req.id, 200)

\* cancelInvitation: UPDATE invitations SET status = 'cancelled' WHERE ...
CancelWrite(r) ==
    LET req == inflight[r]
        rows == {i \in invitations : i.id = req.id /\ SqlEq(i.family_id, ToSql(req.familyId))}
    IN /\ req.op = "cancel" /\ req.pc = 1
       /\ inflight' = [inflight EXCEPT ![r] = NoRequest]
       /\ UNCHANGED <<users, events, sessions, now,
                      nextUser, nextFamily, nextEvent, nextInvite>>
       /\ IF rows = {}
          THEN Respond("cancel", req.sess, req.id, 404) /\ UNCHANGED invitations
          ELSE IF "cancelled" \notin InvitationStatuses
          THEN Respond("cancel", req.sess, req.id, 500) /\ UNCHANGED invitations
          ELSE /\ invitations' =
                     {IF i \in rows THEN [i EXCEPT !.status = "cancelled"] ELSE i
                        : i \in invitations}
               /\ Respond("cancel", req.sess, req.id, 200)

\* the accept route up to "await db.getUserByEmail(invitation.email)"
AcceptBegin(r, s, id, password) ==
    LET found == getInvitationById(id)
    IN /\ inflight[r].op = "none"
       /\ UNCHANGED <<users, invitations, events, sessions, now,
                      nextUser, nextFamily, nextEvent, nextInvite>>
       /\ IF ~Truthy(password)
          THEN Respond("accept", s, id, 400) /\ UNCHANGED inflight
          ELSE IF found = {}
          THEN Respond("accept", s, id, 404) /\ UNCHANGED inflight
          ELSE LET invitation == CHOOSE i \in found : TRUE
               IN IF \/ invitation.status # "pending"
                     \/ invitationExpired(invitation)
                     \/ ~Truthy(invitation.family_id)
                  THEN Respond("accept", s, id, 400) /\ UNCHANGED inflight
                  ELSE /\ inflight' = [inflight EXCEPT ![r] =
                              [op |-> "accept", pc |-> 1, sess |-> s, id |-> id,
                               password |-> password, invitation |-> invitation,
                               existing |-> Null]]
                       /\ UNCHANGED <<resp, logged>>

\* "let user = await db.getUserByEmail(invitation.email)"
AcceptLookup(r) ==
    LET req == inflight[r]
        existing == getUserByEmail(req.invitation.email)
    IN /\ req.op = "accept" /\ req.pc = 1
       /\ inflight' = [inflight EXCEPT
                          ![r].pc = 2,
                          ![r].existing = IF existing = {} THEN Null
                                          ELSE (CHOOSE u \in existing : TRUE).id]
       /\ UNCHANGED <<users, invitations, events, sessions, now,
                      nextUser, nextFamily, nextEvent, nextInvite, resp, logged>>

\* updateUserForInvitation, or createUser, which throws when the email has
\* an account by now
AcceptUser(r) ==
    LET req == inflight[r]
        row(userId) == [id |-> userId, email |-> req.invitation.email,
                        password |-> req.password, role |-> req.invitation.role,
                        family_id |-> req.invitation.family_id]
    IN /\ req.op = "accept" /\ req.pc = 2
       /\ UNCHANGED <<invitations, events, sessions, now,
                      nextFamily, nextEvent, nextInvite>>
       /\ IF req.existing # Null
          THEN /\ users' = {IF u.id = req.existing
                            THEN [row(u.id) EXCEPT !.email = u.email] ELSE u : u \in users}
               /\ inflight' = [inflight EXCEPT ![r].pc = 3]
               /\ UNCHANGED <<nextUser, resp, logged>>
          ELSE IF getUserByEmail(req.invitation.email) # {}
          THEN /\ Respond("accept", req.sess, req.id, 500)
               /\ inflight' = [inflight EXCEPT ![r] = NoRequest]
               /\ UNCHANGED <<users, nextUser>>
          ELSE /\ nextUser < MaxUsers
               /\ users' = users \cup {row(UserIdPool[nextUser + 1])}
               /\ nextUser' = nextUser + 1
               /\ inflight' = [inflight EXCEPT
                                  ![r].pc = 3,
                                  ![r].existing = UserIdPool[nextUser + 1]]
               /\ UNCHANGED <<resp, logged>>

\* updateInvitationStatus(id, 'accepted'), the session and the answer
AcceptFinish(r) ==
    LET req == inflight[r]
    IN /\ req.op = "accept" /\ req.pc = 3
       /\ invitations' =
             {IF i.id = req.id THEN [i EXCEPT !.status = "accepted"] ELSE i
                : i \in invitations}
       /\ SetSession(req.sess, req.existing, req.invitation.role,
                     req.invitation.family_id)
       /\ Respond("accept", req.sess, req.id, 201)
       /\ inflight' = [inflight EXCEPT ![r] = NoRequest]
       /\ UNCHANGED <<users, events, now, nextUser, nextFamily, nextEvent, nextInvite>>

\* the admin a@x is logged in on session 1; session 2 is the browser of
\* whoever is invited
RaceInvitationsInit ==
    /\ NothingInFlight
    /\ users = {[id |-> "u1", email |-> "a@x", password |-> "pw1",
                 role |-> "admin", family_id |-> "f1"]}
    /\ invitations = {}
    /\ events = {}
    /\ sessions = [s \in 1..MaxOpenSessions |->
                      IF s = 1
                      THEN [userId |-> "u1", userRole |-> "admin", familyId |-> "f1"]
                      ELSE NoSession]
    /\ now = 0
    /\ nextUser = 1
    /\ nextFamily = 1
    /\ nextEvent = 0
    /\ nextInvite = 0
    /\ resp = NoResp
    /\ logged = InvitationRoutes
    /\ ClientIdle

RaceInviteIds == {InviteIdPool[i] : i \in 1..MaxRaceInvites}

DoInviteBegin ==
    /\ \E r \in RequestSlots, s \in DOMAIN sessions, email \in Emails :
          InviteBegin(r, s, email, Undefined)
    /\ UNCHANGED clientVars

DoInviteCheck ==
    /\ \E r \in RequestSlots : InviteCheck(r)
    /\ UNCHANGED clientVars

DoInviteInsert ==
    /\ \E r \in RequestSlots : InviteInsert(r)
    /\ UNCHANGED clientVars

DoResendBegin ==
    /\ \E r \in RequestSlots, s \in DOMAIN sessions, id \in RaceInviteIds :
          ChangeInvitationBegin(r, "resend", s, id)
    /\ UNCHANGED clientVars

DoResendWrite ==
    /\ \E r \in RequestSlots : ResendWrite(r)
    /\ UNCHANGED clientVars

DoCancelBegin ==
    /\ \E r \in RequestSlots, s \in DOMAIN sessions, id \in RaceInviteIds :
          ChangeInvitationBegin(r, "cancel", s, id)
    /\ UNCHANGED clientVars

DoCancelWrite ==
    /\ \E r \in RequestSlots : CancelWrite(r)
    /\ UNCHANGED clientVars

DoAcceptBegin ==
    /\ \E r \in RequestSlots, s \in DOMAIN sessions, id \in RaceInviteIds :
          AcceptBegin(r, s, id, "pw1")
    /\ UNCHANGED clientVars

DoAcceptLookup ==
    /\ \E r \in RequestSlots : AcceptLookup(r)
    /\ UNCHANGED clientVars

DoAcceptUser ==
    /\ \E r \in RequestSlots : AcceptUser(r)
    /\ UNCHANGED clientVars

DoAcceptFinish ==
    /\ \E r \in RequestSlots : AcceptFinish(r)
    /\ UNCHANGED clientVars

NextRaceInvitations ==
    \/ DoInviteBegin
    \/ DoInviteCheck
    \/ DoInviteInsert
    \/ DoResendBegin
    \/ DoResendWrite
    \/ DoCancelBegin
    \/ DoCancelWrite
    \/ DoAcceptBegin
    \/ DoAcceptLookup
    \/ DoAcceptUser
    \/ DoAcceptFinish

SpecRaceInvitations == RaceInvitationsInit /\ [][NextRaceInvitations]_vars

(***************************************************************************)
(* Claims about concurrent invitation requests                             *)
(***************************************************************************)
\* C25: an invitation whose status is accepted is changed by no accept,
\* cancel or resend request afterwards, also when such a request runs
\* while the accept request runs; so an invitation is accepted once at most.
C25_AcceptedIsTerminal ==
    [][\A i \in invitations : i.status = "accepted" => i \in invitations']_vars

\* C26: no two pending invitations have the same email and the same family.
C26_OnePendingPerEmailAndFamily ==
    \A i, j \in invitations :
        (/\ i.status = "pending" /\ j.status = "pending"
         /\ i.email = j.email /\ i.family_id = j.family_id) => i = j


(***************************************************************************)
(* An invitation for the admin of another family                           *)
(***************************************************************************)
\* b@x registered family f2, invited c@x, and c@x accepted; a@x registered
\* family f1, logged in and invited b@x
MoveInit ==
    /\ NothingInFlight
    /\ users = {[id |-> "u1", email |-> "a@x", password |-> "pw1",
                 role |-> "admin", family_id |-> "f1"],
                [id |-> "u2", email |-> "b@x", password |-> "pw1",
                 role |-> "admin", family_id |-> "f2"],
                [id |-> "u3", email |-> "c@x", password |-> "pw1",
                 role |-> "adult", family_id |-> "f2"]}
    /\ \E role \in Roles :
          invitations = {[id |-> "i1", email |-> "b@x", family_id |-> "f1",
                          invited_by |-> "u1", role |-> role,
                          status |-> "pending", expires_at |-> InviteTTL],
                         [id |-> "i2", email |-> "c@x", family_id |-> "f2",
                          invited_by |-> "u2", role |-> "adult",
                          status |-> "accepted", expires_at |-> InviteTTL]}
    /\ events = {}
    /\ sessions = [s \in SessionIds |->
                      [userId |-> "u1", userRole |-> "admin", familyId |-> "f1"]]
    /\ now = 0
    /\ nextUser = 3
    /\ nextFamily = 2
    /\ nextEvent = 0
    /\ nextInvite = 2
    /\ resp = NoResp
    /\ logged = AccountRoutes \cup FamilyRoutes \cup {"resend"}
    /\ ClientIdle

NextMove ==
    \/ DoLogin
    \/ DoLogout
    \/ DoListInvitations
    \/ DoResendInvitation
    \/ DoAcceptWithPassword
    \/ DoChangeRole
    \/ DoRemoveMember

SpecMove == MoveInit /\ [][NextMove]_vars

(***************************************************************************)
(* Claims about the admins of a family                                     *)
(***************************************************************************)
\* C27: every family that has a member has a member whose role is admin.
C27_FamilyHasAdmin ==
    \A m \in users : \E u \in users : u.family_id = m.family_id /\ u.role = "admin"

====
